---- MODULE Spec2Model ----
(***************************************************************************)
(* A model of the ansi-control-codes crate: the ControlFunction value      *)
(* model (lib.rs), its Display rendering, the private_use constructor, the *)
(* standard catalogs (c0.rs, c1.rs, independent_control_functions.rs,      *)
(* control_sequences.rs) and the TokenStream parser (parser.rs).           *)
(*                                                                         *)
(* A &str is a sequence of bytes (0..255) that is valid UTF-8; positions   *)
(* are byte offsets counted from 0, as in the source.                      *)
(***************************************************************************)
EXTENDS Integers, Sequences, FiniteSets, TLC

VARIABLES
    stream,     \* the TokenStream: [value, position, max_position]
    tokens,     \* the tokens returned by next() so far, in order
    returned,   \* outcome of the last next() call: "start", "Some", "None", "panic"
    calls,      \* number of next() calls made
    slices,     \* the slice bounds <<from, to>> taken on stream.value by the last call
    fn,         \* the ControlFunction built by a constructor, if any
    outcome,    \* how the constructor ended: "none", "Ok", an error, or "panic"
    arg,        \* the constructor call, if any
    pc          \* phase of the run: "build", "render", "decode"

vars == <<stream, tokens, returned, calls, slices, fn, outcome, arg, pc>>

-----------------------------------------------------------------------------
(* Bounds of the model *)

\* number of input chunks (characters, or CSI as one chunk) of a decoded input
MaxLen == 4

\* next() calls made after the stream has returned None
MaxNoneCalls == 2

-----------------------------------------------------------------------------
(* Strings *)

\* ascii! with column and row exchanged
ascii_row_first(xx, yy) == << (yy * 16) + xx >>

\* ascii!(xx / yy): the one-byte string (xx << 4) + yy
ascii(xx, yy) == << (xx * 16) + yy >>

\* ascii!(xx1 / yy1, xx2 / yy2)
ascii2(xx1, yy1, xx2, yy2) == << (xx1 * 16) + yy1, (xx2 * 16) + yy2 >>

\* str::is_ascii
is_ascii(s) == \A i \in 1..Len(s) : s[i] < 128

\* str::is_char_boundary: the start, the end, or a byte that is no UTF-8 continuation byte
is_char_boundary(s, index) ==
    IF index = 0 \/ index = Len(s) THEN TRUE
    ELSE IF index < 0 \/ index > Len(s) THEN FALSE
    ELSE ~(s[index + 1] \in 128..191)

\* &s[from..to] succeeds iff from <= to <= len and both are character boundaries
SliceOK(s, from, to) ==
    /\ 0 <= from /\ from <= to /\ to <= Len(s)
    /\ is_char_boundary(s, from)
    /\ is_char_boundary(s, to)

\* &s[from..to]; a slice that would panic is reported through SliceOK, its content is empty
Slice(s, from, to) ==
    IF 0 <= from /\ from <= to /\ to <= Len(s) THEN SubSeq(s, from + 1, to) ELSE <<>>

\* index of the first occurrence of byte b in s, 0 if there is none
RECURSIVE find_byte(_, _, _)
find_byte(s, b, i) ==
    IF i > Len(s) THEN 0
    ELSE IF s[i] = b THEN i
    ELSE find_byte(s, b, i + 1)

\* split as str::split_terminator would do it, and dropping every empty field
RECURSIVE split_dropping_empty(_, _)
split_dropping_empty(s, separator) ==
    LET i == find_byte(s, separator[1], 1)
        field == IF i = 0 THEN s ELSE SubSeq(s, 1, i - 1)
        fields == IF field = <<>> THEN <<>> ELSE << field >>
    IN IF i = 0 THEN fields
       ELSE fields \o split_dropping_empty(SubSeq(s, i + 1, Len(s)), separator)

\* split that gives no field at all for the empty string
RECURSIVE split_empty_to_none(_, _)
split_empty_to_none(s, separator) ==
    LET i == find_byte(s, separator[1], 1)
    IN IF s = <<>> THEN <<>>
       ELSE IF i = 0 THEN << s >>
       ELSE << SubSeq(s, 1, i - 1) >> \o split_empty_to_none(SubSeq(s, i + 1, Len(s)), separator)

\* str::split(separator) collected: the fields between separators, empty fields kept
RECURSIVE split(_, _)
split(s, separator) ==
    LET i == find_byte(s, separator[1], 1)
    IN IF i = 0 THEN << s >>
       ELSE << SubSeq(s, 1, i - 1) >> \o split(SubSeq(s, i + 1, Len(s)), separator)

\* join that leaves out the empty entries and their separators
RECURSIVE join_dropping_empty(_, _)
join_dropping_empty(list, separator) ==
    IF Len(list) = 0 THEN <<>>
    ELSE LET rest == join_dropping_empty(Tail(list), separator)
         IN IF list[1] = <<>> THEN rest
            ELSE IF rest = <<>> THEN list[1]
            ELSE list[1] \o separator \o rest

\* [String]::join(separator)
RECURSIVE join(_, _)
join(list, separator) ==
    IF Len(list) = 0 THEN <<>>
    ELSE IF Len(list) = 1 THEN list[1]
    ELSE list[1] \o separator \o join(Tail(list), separator)

\* u32::to_string: decimal digits, most significant first, no leading zeros
RECURSIVE to_string(_)
to_string(n) ==
    IF n < 10 THEN << 48 + n >>
    ELSE to_string(n \div 10) \o << 48 + (n % 10) >>

-----------------------------------------------------------------------------
(* ControlFunction (lib.rs) *)

new_c0(value) ==
    [function_type |-> "C0", value |-> value, parameters |-> <<>>]

new_c1(value) ==
    [function_type |-> "C1", value |-> value, parameters |-> <<>>]

new_sequence(value, parameters) ==
    [function_type |-> "ControlSequence", value |-> value, parameters |-> parameters]

new_independent_control_function(value) ==
    [function_type |-> "IndependentControlFunction", value |-> value, parameters |-> <<>>]

\* no value: the placeholder of `fn` where no constructor has run
NoFunction == [function_type |-> "none", value |-> <<>>, parameters |-> <<>>]

c0(xx, yy) == new_c0(ascii(xx, yy))
c1(xx, yy) == new_c1(ascii(xx, yy))
independent(xx, yy) == new_independent_control_function(ascii(xx, yy))

ESC == c0(1, 11)
BEL == c0(0, 7)
CSI == c1(5, 11)
NEL == c1(4, 5)
RIS == independent(6, 3)

\* format_parameters with a separator after every entry
format_parameters_terminated(self) ==
    IF Len(self.parameters) = 0 THEN <<>>
    ELSE join(self.parameters, ascii(3, 11)) \o ascii(3, 11)

\* ControlFunction::format_parameters
format_parameters(self) == join(self.parameters, ascii(3, 11))

\* Display that writes the identifier of a C1 or independent function without ESC
RECURSIVE Display_without_escape(_)
Display_without_escape(self) ==
    CASE self.function_type = "C0" -> self.value
      [] self.function_type \in {"C1", "IndependentControlFunction"} -> self.value
      [] self.function_type = "ControlSequence" ->
            Display_without_escape(CSI) \o format_parameters(self) \o self.value
      [] OTHER -> <<>>

\* Display that writes ESC before the identifier of every function, C0 included
RECURSIVE Display_escaping_c0(_)
Display_escaping_c0(self) ==
    CASE self.function_type = "C0" -> << 27 >> \o self.value
      [] self.function_type \in {"C1", "IndependentControlFunction"} ->
            << 27 >> \o self.value
      [] self.function_type = "ControlSequence" ->
            << 27, 91 >> \o format_parameters(self) \o self.value
      [] OTHER -> <<>>

\* impl Display for ControlFunction
RECURSIVE Display(_)
Display(self) ==
    CASE self.function_type = "C0" -> self.value
      [] self.function_type \in {"C1", "IndependentControlFunction"} ->
            Display(ESC) \o self.value
      [] self.function_type = "ControlSequence" ->
            Display(CSI) \o format_parameters(self) \o self.value
      [] OTHER -> <<>>

\* impl PartialEq<T: AsRef<str>> for ControlFunction: the slices of other_str it takes
eq_str_slices(self, other_str) ==
    IF self.function_type \in {"C1", "IndependentControlFunction"} /\ Len(other_str) = 2
    THEN { <<0, 1>>, <<1, 2>> }
    ELSE {}

\* eq that does not look at the first byte when it compares a C1 or independent function
eq_str_ignoring_escape(self, other_str) ==
    CASE self.function_type = "C0" -> self.value = other_str
      [] self.function_type \in {"C1", "IndependentControlFunction"} ->
            IF Len(other_str) # 2 THEN FALSE
            ELSE Slice(other_str, 1, 2) = self.value
      [] self.function_type = "ControlSequence" -> Display(self) = other_str
      [] OTHER -> FALSE

\* impl PartialEq<T: AsRef<str>> for ControlFunction::eq
eq_str(self, other_str) ==
    CASE self.function_type = "C0" -> self.value = other_str
      [] self.function_type \in {"C1", "IndependentControlFunction"} ->
            IF Len(other_str) # 2 THEN FALSE
            ELSE /\ Slice(other_str, 0, 1) = ESC.value
                 /\ Slice(other_str, 1, 2) = self.value
      [] self.function_type = "ControlSequence" -> Display(self) = other_str
      [] OTHER -> FALSE

\* impl PartialEq<ControlFunction> for &str, and for String: `other == self`
eq_reversed(self_str, other) == eq_str(other, self_str)

\* private_use that looks for the private-use range in the first byte of the identifier
private_use_first_byte(value, parameters) ==
    LET Err(e) == [result |-> e, fn |-> NoFunction]
    IN IF ~is_ascii(value) THEN Err("InvalidAsciiError")
       ELSE IF Len(value) > 2 THEN Err("InvalidFunctionValueError")
       ELSE IF Len(value) = 2 /\ Slice(value, 0, 1) # ascii(2, 0)
       THEN Err("InvalidIntermediateByteError")
       ELSE IF ~SliceOK(value, 0, 1) THEN Err("panic")
       ELSE IF Slice(value, 0, 1)[1] \div 16 # 7 THEN Err("InvalidPrivateUseError")
       ELSE [result |-> "Ok",
             fn |-> [function_type |-> "ControlSequence", value |-> value,
                     parameters |-> parameters]]

\* private_use that checks the private-use range before the intermediate byte
private_use_range_first(value, parameters) ==
    LET Err(e) == [result |-> e, fn |-> NoFunction]
    IN IF ~is_ascii(value) THEN Err("InvalidAsciiError")
       ELSE IF Len(value) > 2 THEN Err("InvalidFunctionValueError")
       ELSE IF Len(value) = 0 THEN Err("panic")
       ELSE IF value[Len(value)] \div 16 # 7 THEN Err("InvalidPrivateUseError")
       ELSE IF Len(value) = 2 /\ Slice(value, 0, 1) # ascii(2, 0)
       THEN Err("InvalidIntermediateByteError")
       ELSE [result |-> "Ok",
             fn |-> [function_type |-> "ControlSequence", value |-> value,
                     parameters |-> parameters]]

\* ControlFunction::private_use: [result, fn]; `panic` when a slice it takes is out of range
private_use(value, parameters) ==
    LET Err(e) == [result |-> e, fn |-> NoFunction]
    IN IF ~is_ascii(value) THEN Err("InvalidAsciiError")
       ELSE IF Len(value) > 2 THEN Err("InvalidFunctionValueError")
       ELSE IF Len(value) = 2 /\ ~SliceOK(value, 0, 1) THEN Err("panic")
       ELSE IF Len(value) = 2 /\ Slice(value, 0, 1) # ascii(2, 0)
       THEN Err("InvalidIntermediateByteError")
       ELSE LET from_ == IF Len(value) = 2 THEN 1 ELSE 0
                function_value == Slice(value, from_, from_ + 1)
            IN IF ~SliceOK(value, from_, from_ + 1) THEN Err("panic")
               ELSE IF function_value[1] \div 16 # 7 THEN Err("InvalidPrivateUseError")
               ELSE [result |-> "Ok",
                     fn |-> [function_type |-> "ControlSequence", value |-> value,
                             parameters |-> parameters]]

-----------------------------------------------------------------------------
(* The standard control sequences (control_sequences.rs) *)

\* argument values: a u32, the discriminant of an enum with a default (0), the
\* discriminant of an enum without one
U32 == { 0, 5, 13 }
Selective == { 0, 1 }
Required == { 1, 2 }

\* one `pub fn`: its name, the identifier its sequence! call names, and per parameter
\* whether it is an Option, the default that stands for None, and its values; `variadic`
\* marks the builders that take a Vec
Builder(name, value, optional, default, domain, variadic) ==
    [name |-> name, value |-> value, optional |-> optional, default |-> default,
     domain |-> domain, variadic |-> variadic]

Builders ==
    {
       Builder("CBT", ascii(5, 10), <<TRUE>>, <<1>>, <<U32>>, FALSE),
       Builder("CHA", ascii(4, 7), <<TRUE>>, <<1>>, <<U32>>, FALSE),
       Builder("CHT", ascii(4, 9), <<TRUE>>, <<1>>, <<U32>>, FALSE),
       Builder("CNL", ascii(4, 5), <<TRUE>>, <<1>>, <<U32>>, FALSE),
       Builder("CPL", ascii(4, 6), <<TRUE>>, <<1>>, <<U32>>, FALSE),
       Builder("CPR", ascii(5, 2), <<TRUE, TRUE>>, <<1, 1>>, <<U32, U32>>, FALSE),
       Builder("CTC", ascii(5, 7), <<TRUE>>, <<0>>, <<Selective>>, FALSE),
       Builder("CUB", ascii(4, 4), <<TRUE>>, <<1>>, <<U32>>, FALSE),
       Builder("CUD", ascii(4, 2), <<TRUE>>, <<1>>, <<U32>>, FALSE),
       Builder("CUF", ascii(4, 3), <<TRUE>>, <<1>>, <<U32>>, FALSE),
       Builder("CUP", ascii(4, 8), <<TRUE, TRUE>>, <<1, 1>>, <<U32, U32>>, FALSE),
       Builder("CUU", ascii(4, 1), <<TRUE>>, <<1>>, <<U32>>, FALSE),
       Builder("CVT", ascii(5, 9), <<TRUE>>, <<1>>, <<U32>>, FALSE),
       Builder("DA", ascii(6, 3), <<TRUE>>, <<0>>, <<U32>>, FALSE),
       Builder("DAQ", ascii(6, 15), <<TRUE>>, <<0>>, <<Selective>>, FALSE),
       Builder("DCH", ascii(5, 0), <<TRUE>>, <<1>>, <<U32>>, FALSE),
       Builder("DL", ascii(4, 13), <<TRUE>>, <<1>>, <<U32>>, FALSE),
       Builder("DSR", ascii(6, 14), <<TRUE>>, <<0>>, <<Selective>>, FALSE),
       Builder("DTA", ascii2(2, 0, 5, 4), <<FALSE, FALSE>>, <<0, 0>>, <<U32, U32>>, FALSE),
       Builder("EA", ascii(4, 15), <<TRUE>>, <<0>>, <<Selective>>, FALSE),
       Builder("ECH", ascii(5, 8), <<TRUE>>, <<1>>, <<U32>>, FALSE),
       Builder("ED", ascii(4, 10), <<TRUE>>, <<0>>, <<Selective>>, FALSE),
       Builder("EF", ascii(4, 14), <<TRUE>>, <<0>>, <<Selective>>, FALSE),
       Builder("EL", ascii(4, 11), <<TRUE>>, <<0>>, <<Selective>>, FALSE),
       Builder("FNK", ascii2(2, 0, 5, 7), <<FALSE>>, <<0>>, <<U32>>, FALSE),
       Builder("FNT", ascii2(2, 0, 4, 4), <<TRUE, TRUE>>, <<0, 0>>, <<Selective, U32>>, FALSE),
       Builder("GCC", ascii2(2, 0, 5, 15), <<TRUE>>, <<0>>, <<Selective>>, FALSE),
       Builder("GSM", ascii2(2, 0, 4, 2), <<TRUE, TRUE>>, <<100, 100>>, <<U32, U32>>, FALSE),
       Builder("GSS", ascii2(2, 0, 4, 3), <<FALSE>>, <<0>>, <<U32>>, FALSE),
       Builder("HPA", ascii(6, 0), <<TRUE>>, <<1>>, <<U32>>, FALSE),
       Builder("HPB", ascii(6, 10), <<TRUE>>, <<1>>, <<U32>>, FALSE),
       Builder("HPR", ascii(6, 1), <<TRUE>>, <<1>>, <<U32>>, FALSE),
       Builder("HVP", ascii(6, 6), <<TRUE, TRUE>>, <<1, 1>>, <<U32, U32>>, FALSE),
       Builder("ICH", ascii(4, 0), <<TRUE>>, <<1>>, <<U32>>, FALSE),
       Builder("IDCS", ascii2(2, 0, 4, 15), <<FALSE>>, <<0>>, <<U32>>, FALSE),
       Builder("IGS", ascii2(2, 0, 4, 13), <<FALSE>>, <<0>>, <<U32>>, FALSE),
       Builder("IL", ascii(4, 12), <<TRUE>>, <<1>>, <<U32>>, FALSE),
       Builder("JFY", ascii2(2, 0, 4, 6), <<TRUE>>, <<0>>, <<Selective>>, FALSE),
       Builder("MC", ascii(6, 9), <<TRUE>>, <<0>>, <<Selective>>, FALSE),
       Builder("NP", ascii(5, 5), <<TRUE>>, <<1>>, <<U32>>, FALSE),
       Builder("PEC", ascii2(2, 0, 5, 10), <<TRUE>>, <<0>>, <<Selective>>, FALSE),
       Builder("PFS", ascii2(2, 0, 4, 10), <<TRUE>>, <<0>>, <<Selective>>, FALSE),
       Builder("PP", ascii(5, 6), <<TRUE>>, <<1>>, <<U32>>, FALSE),
       Builder("PPA", ascii2(2, 0, 5, 0), <<TRUE>>, <<1>>, <<U32>>, FALSE),
       Builder("PPB", ascii2(2, 0, 5, 2), <<TRUE>>, <<1>>, <<U32>>, FALSE),
       Builder("PPR", ascii2(2, 0, 5, 1), <<TRUE>>, <<1>>, <<U32>>, FALSE),
       Builder("PTX", ascii(5, 12), <<TRUE>>, <<0>>, <<Selective>>, FALSE),
       Builder("QUAD", ascii2(2, 0, 4, 8), <<TRUE>>, <<0>>, <<Selective>>, FALSE),
       Builder("REP", ascii(6, 2), <<TRUE>>, <<1>>, <<U32>>, FALSE),
       Builder("RM", ascii(6, 12), <<FALSE>>, <<0>>, <<Required>>, TRUE),
       Builder("SACS", ascii2(2, 0, 5, 12), <<TRUE>>, <<0>>, <<U32>>, FALSE),
       Builder("SAPV", ascii2(2, 0, 5, 13), <<TRUE>>, <<0>>, <<Selective>>, FALSE),
       Builder("SCO", ascii2(2, 0, 6, 5), <<TRUE>>, <<0>>, <<Selective>>, FALSE),
       Builder("SCP", ascii2(2, 0, 6, 11), <<FALSE, FALSE>>, <<0, 0>>, <<Required, Required>>, FALSE),
       Builder("SCS", ascii2(2, 0, 6, 7), <<FALSE>>, <<0>>, <<U32>>, FALSE),
       Builder("SD", ascii(5, 4), <<TRUE>>, <<1>>, <<U32>>, FALSE),
       Builder("SDS", ascii(5, 13), <<TRUE>>, <<0>>, <<Selective>>, FALSE),
       Builder("SEE", ascii(5, 1), <<TRUE>>, <<0>>, <<Selective>>, FALSE),
       Builder("SEF", ascii2(2, 0, 5, 9), <<TRUE, TRUE>>, <<0, 0>>, <<U32, U32>>, FALSE),
       Builder("SGR", ascii(6, 13), <<TRUE>>, <<0>>, <<Selective>>, TRUE),
       Builder("SHS", ascii2(2, 0, 4, 11), <<TRUE>>, <<0>>, <<Selective>>, FALSE),
       Builder("SIMD", ascii(5, 14), <<TRUE>>, <<0>>, <<Selective>>, FALSE),
       Builder("SL", ascii2(2, 0, 4, 0), <<TRUE>>, <<1>>, <<U32>>, FALSE),
       Builder("SLH", ascii2(2, 0, 5, 5), <<FALSE>>, <<0>>, <<U32>>, FALSE),
       Builder("SLL", ascii2(2, 0, 5, 6), <<FALSE>>, <<0>>, <<U32>>, FALSE),
       Builder("SLS", ascii2(2, 0, 6, 8), <<FALSE>>, <<0>>, <<U32>>, FALSE),
       Builder("SM", ascii(6, 8), <<FALSE>>, <<0>>, <<Required>>, TRUE),
       Builder("SPD", ascii2(2, 0, 5, 3), <<TRUE, TRUE>>, <<0, 0>>, <<Selective, Selective>>, FALSE),
       Builder("SPH", ascii2(2, 0, 6, 9), <<FALSE>>, <<0>>, <<U32>>, FALSE),
       Builder("SPI", ascii2(2, 0, 4, 7), <<FALSE, FALSE>>, <<0, 0>>, <<U32, U32>>, FALSE),
       Builder("SPL", ascii2(2, 0, 6, 10), <<FALSE>>, <<0>>, <<U32>>, FALSE),
       Builder("SPQR", ascii2(2, 0, 5, 8), <<TRUE>>, <<0>>, <<Selective>>, FALSE),
       Builder("SR", ascii2(2, 0, 5, 8), <<TRUE>>, <<1>>, <<U32>>, FALSE),
       Builder("SRCS", ascii2(2, 0, 6, 6), <<TRUE>>, <<0>>, <<U32>>, FALSE),
       Builder("SRS", ascii(5, 11), <<TRUE>>, <<0>>, <<Selective>>, FALSE),
       Builder("SSU", ascii2(2, 0, 4, 9), <<TRUE>>, <<0>>, <<Selective>>, FALSE),
       Builder("SSW", ascii2(2, 0, 5, 11), <<FALSE>>, <<0>>, <<U32>>, FALSE),
       Builder("STAB", ascii2(2, 0, 5, 14), <<FALSE>>, <<0>>, <<U32>>, FALSE),
       Builder("SU", ascii(5, 3), <<TRUE>>, <<1>>, <<U32>>, FALSE),
       Builder("SVS", ascii2(2, 0, 4, 12), <<TRUE>>, <<0>>, <<Selective>>, FALSE),
       Builder("TAC", ascii2(2, 0, 6, 2), <<FALSE>>, <<0>>, <<U32>>, FALSE),
       Builder("TALE", ascii2(2, 0, 6, 1), <<FALSE>>, <<0>>, <<U32>>, FALSE),
       Builder("TATE", ascii2(2, 0, 6, 0), <<FALSE>>, <<0>>, <<U32>>, FALSE),
       Builder("TBC", ascii(6, 7), <<TRUE>>, <<0>>, <<Selective>>, FALSE),
       Builder("TCC", ascii2(2, 0, 6, 3), <<FALSE, TRUE>>, <<0, 32>>, <<U32, U32>>, FALSE),
       Builder("TSR", ascii2(2, 0, 6, 4), <<FALSE>>, <<0>>, <<U32>>, FALSE),
       Builder("TSS", ascii2(2, 0, 4, 5), <<FALSE>>, <<0>>, <<U32>>, FALSE),
       Builder("VPA", ascii(6, 4), <<TRUE>>, <<1>>, <<U32>>, FALSE),
       Builder("VPB", ascii(6, 11), <<TRUE>>, <<1>>, <<U32>>, FALSE),
       Builder("VPR", ascii(6, 5), <<TRUE>>, <<1>>, <<U32>>, FALSE)
    }

\* sequence! that writes an empty field for an argument that is None
sequence_empty_for_none(builder, args) ==
    IF builder.variadic
    THEN LET vector == IF args[1] = <<>> THEN << >> ELSE args[1][1]
         IN new_sequence(builder.value, [i \in 1..Len(vector) |-> to_string(vector[i])])
    ELSE new_sequence(builder.value,
             [i \in 1..Len(args) |->
                 IF args[i] = <<>> THEN <<>> ELSE to_string(args[i][1])])

\* sequence!: an argument is <<>> for None and <<x>> for x; a variadic builder has one
\* argument, the list
sequence(builder, args) ==
    IF builder.variadic
    THEN LET vector == IF args[1] = <<>> THEN builder.default ELSE args[1][1]
         IN new_sequence(builder.value, [i \in 1..Len(vector) |-> to_string(vector[i])])
    ELSE new_sequence(builder.value,
             [i \in 1..Len(args) |->
                 to_string(IF args[i] = <<>> THEN builder.default[i] ELSE args[i][1])])

-----------------------------------------------------------------------------
(* Catalogs the parser matches against (parser.rs) *)

\* ACK, BEL, BS, CAN, CR, DC1, DC2, DC3, DC4, DLE, EM, ENQ, EOT, ETB, ETX, FF, HT, IS1, IS2,
\* IS3, IS4, LF, NAK, NUL, SI, SO, SOH, STX, SUB, SYN, VT
\* the catalog with the format effectors BS, HT, LF, VT, FF, CR only
C0_CODES_format_effectors ==
    << c0(0, 8), c0(0, 9), c0(0, 10), c0(0, 11), c0(0, 12), c0(0, 13) >>

C0_CODES ==
    << c0(0, 6), c0(0, 7), c0(0, 8), c0(1, 8), c0(0, 13), c0(1, 1), c0(1, 2), c0(1, 3),
       c0(1, 4), c0(1, 0), c0(1, 9), c0(0, 5), c0(0, 4), c0(1, 7), c0(0, 3), c0(0, 12),
       c0(0, 9), c0(1, 15), c0(1, 14), c0(1, 13), c0(1, 12), c0(0, 10), c0(1, 5), c0(0, 0),
       c0(0, 15), c0(0, 14), c0(0, 1), c0(0, 2), c0(1, 10), c0(1, 6), c0(0, 11) >>

\* the catalog taken as every code from 04/00 on, allocated or not
C1_CODES_unallocated == [i \in 1..27 |-> c1(4, i - 1)]

\* BPH, NBH, NEL, SSA, ESA, HTS, HTJ, VTS, PLD, PLU, RI, SS2, SS3, DCS, PU1, PU2, STS, CCH, MW,
\* SPA, EPA, SOS, SCI, ST, OSC, PM, APC
C1_CODES ==
    << c1(4, 2), c1(4, 3), c1(4, 5), c1(4, 6), c1(4, 7), c1(4, 8), c1(4, 9), c1(4, 10),
       c1(4, 11), c1(4, 12), c1(4, 13), c1(4, 14), c1(4, 15), c1(5, 0), c1(5, 1), c1(5, 2),
       c1(5, 3), c1(5, 4), c1(5, 5), c1(5, 6), c1(5, 7), c1(5, 8), c1(5, 10), c1(5, 12),
       c1(5, 13), c1(5, 14), c1(5, 15) >>

\* DMI, INT, EMI, RIS, CMD, LS2, LS3, LS3R, LS2R, LS1R
INDEPDENDENT_CODES ==
    << independent(6, 0), independent(6, 1), independent(6, 2), independent(6, 3),
       independent(6, 4), independent(6, 14), independent(6, 15), independent(7, 12),
       independent(7, 13), independent(7, 14) >>

\* the lower bound taken two columns too low, at the intermediate bytes
CONTROL_FUNCTION_LOWER_BOUND_02 == ascii(2, 0)[1]

CONTROL_FUNCTION_LOWER_BOUND == ascii(4, 0)[1]
\* the upper bound without the private-use area 07/00 - 07/15
CONTROL_FUNCTION_UPPER_BOUND_06 == ascii(6, 15)[1]

CONTROL_FUNCTION_UPPER_BOUND == ascii(7, 15)[1]
\* the lower bound of the parameter bytes taken one code too low, at 02/15
PARAMETER_LOWER_BOUND_02 == ascii(2, 15)[1]

PARAMETER_LOWER_BOUND == ascii(3, 0)[1]
\* the upper bound of the parameter bytes taken at the last digit, 03/09
PARAMETER_UPPER_BOUND_03_09 == ascii(3, 9)[1]

PARAMETER_UPPER_BOUND == ascii(3, 15)[1]
PARAMETER_SEPARATOR == ascii(3, 11)

\* codes.into_iter().find(|code| code == &s): index of the first code equal to s, 0 if none
RECURSIVE find_code(_, _, _)
find_code(codes, s, i) ==
    IF i > Len(codes) THEN 0
    ELSE IF eq_str(codes[i], s) THEN i
    ELSE find_code(codes, s, i + 1)

-----------------------------------------------------------------------------
(* Token and TokenStream (parser.rs) *)

String(s) == [kind |-> "String", str |-> s, cf |-> NoFunction]
ControlFunction(f) == [kind |-> "ControlFunction", str |-> <<>>, cf |-> f]

\* from that takes the number of characters for the length
from_counting_chars(value) ==
    [value |-> value, position |-> 0,
     max_position |-> Cardinality({ i \in 1..Len(value) : is_char_boundary(value, i) })]

\* TokenStream::from
from(value) == [value |-> value, position |-> 0, max_position |-> Len(value)]

RECURSIVE next_boundary_loop(_, _)
next_boundary_loop(s, next_boundary) ==
    \* past the end of the string no boundary exists; the source never asks for one there
    IF is_char_boundary(s, next_boundary) \/ next_boundary > Len(s) THEN next_boundary
    ELSE next_boundary_loop(s, next_boundary + 1)

\* get_next_char_boundary that takes every character for one byte
get_next_char_boundary_next_byte(self, position) ==
    IF position >= self.max_position THEN position ELSE position + 1

\* TokenStream::get_next_char_boundary
get_next_char_boundary(self, position) ==
    IF position >= self.max_position THEN position
    ELSE next_boundary_loop(self.value, position + 1)

\* the Option<Token> a call returns, the stream position it leaves, the slices it took
Returns(some, token, position, used) ==
    [some |-> some, token |-> token, position |-> position, slices |-> used]

\* emit_current_string that leaves self.position where it is
emit_current_string_keeping_position(self, position) ==
    IF position # self.position
    THEN Returns(TRUE, String(Slice(self.value, self.position, position)), self.position,
                 { <<self.position, position>> })
    ELSE Returns(FALSE, String(<<>>), self.position, {})

\* emit_current_string that returns the pending text even when there is none
emit_current_string_when_empty(self, position) ==
    Returns(TRUE, String(Slice(self.value, self.position, position)), position,
            { <<self.position, position>> })

\* TokenStream::emit_current_string
emit_current_string(self, position) ==
    IF position # self.position
    THEN Returns(TRUE, String(Slice(self.value, self.position, position)), position,
                 { <<self.position, position>> })
    ELSE Returns(FALSE, String(<<>>), self.position, {})

\* emit_string_or that returns the control function at once and drops the pending text
emit_string_or_dropping_text(self, current_position, after, f) ==
    Returns(TRUE, ControlFunction(f), after, {})

\* emit_string_or that moves past the control function when it returns the pending text
emit_string_or_skipping_function(self, current_position, after, f) ==
    LET emitted == emit_current_string(self, current_position)
    IN IF emitted.some THEN [emitted EXCEPT !.position = after]
       ELSE Returns(TRUE, ControlFunction(f), after, {})

\* emit_string_or that moves past the character after the control function as well
emit_string_or_swallowing_next(self, current_position, after, f) ==
    LET emitted == emit_current_string(self, current_position)
    IN IF emitted.some THEN emitted
       ELSE Returns(TRUE, ControlFunction(f), get_next_char_boundary(self, after), {})

\* emit_string_or whose pending text runs to the end of the control function
emit_string_or_text_through_function(self, current_position, after, f) ==
    IF current_position # self.position
    THEN Returns(TRUE, String(Slice(self.value, self.position, after)), after,
                 { <<self.position, after>> })
    ELSE Returns(TRUE, ControlFunction(f), after, {})

\* self.emit_current_string(current_position).or_else(|| { self.position = after; Some(f) })
emit_string_or(self, current_position, after, f) ==
    LET emitted == emit_current_string(self, current_position)
    IN IF emitted.some THEN emitted
       ELSE Returns(TRUE, ControlFunction(f), after, {})

\* the 'control_sequence_loop of next(): the control sequence found, or none (a break)
RECURSIVE control_sequence_loop(_, _, _, _, _, _)
control_sequence_loop(self, control_sequence_position, current_position_cs, next_position_cs, intermediate_byte, used) ==
    LET value == self.value
        current_char == Slice(value, current_position_cs, next_position_cs)
        used1 == used \cup { <<current_position_cs, next_position_cs>> }
        break == [found |-> FALSE, function |-> NoFunction, end |-> next_position_cs,
                  slices |-> used1]
    IN IF Len(current_char) # 1 THEN break
       ELSE IF /\ current_char[1] >= CONTROL_FUNCTION_LOWER_BOUND
               /\ current_char[1] <= CONTROL_FUNCTION_UPPER_BOUND
       THEN LET value_from == IF intermediate_byte THEN current_position_cs - 1
                              ELSE current_position_cs
                params_to == IF intermediate_byte THEN current_position_cs - 1
                             ELSE current_position_cs
                control_function_value == Slice(value, value_from, next_position_cs)
                parameters_unparsed == Slice(value, control_sequence_position, params_to)
                parameters == split(parameters_unparsed, PARAMETER_SEPARATOR)
            IN [found |-> TRUE,
                function |-> new_sequence(control_function_value, parameters),
                end |-> next_position_cs,
                slices |-> used1 \cup { <<value_from, next_position_cs>>,
                                        <<control_sequence_position, params_to>> }]
       ELSE IF intermediate_byte THEN break
       ELSE LET outside == \/ current_char[1] < PARAMETER_LOWER_BOUND
                           \/ current_char[1] > PARAMETER_UPPER_BOUND
                intermediate == IF outside THEN current_char = ascii(2, 0)
                                ELSE intermediate_byte
            IN IF outside /\ ~intermediate THEN break
               ELSE IF next_position_cs = self.max_position THEN break
               ELSE control_sequence_loop(self, control_sequence_position,
                        next_position_cs,
                        get_next_char_boundary(self, next_position_cs),
                        intermediate, used1)

\* escape_branch that leaves an ESC that introduces nothing in the pending text
escape_branch_escape_as_text(self, current_position, next_char_boundary) ==
    LET value == self.value
        falls(used) == [falls |-> TRUE, result |-> Returns(FALSE, String(<<>>), 0, used)]
        returns(result, used) ==
            [falls |-> FALSE, result |-> [result EXCEPT !.slices = @ \cup used]]
    IN IF self.max_position = next_char_boundary
       THEN returns(emit_string_or(self, current_position, next_char_boundary, ESC), {})
       ELSE
       LET next_next_char_boundary == get_next_char_boundary(self, next_char_boundary)
           current_char == Slice(value, next_char_boundary, next_next_char_boundary)
           control_sequence == Slice(value, current_position, next_next_char_boundary)
           used == { <<next_char_boundary, next_next_char_boundary>>,
                     <<current_position, next_next_char_boundary>> }
           compared == used \cup
               { <<current_position + s[1], current_position + s[2]>> :
                     s \in eq_str_slices(CSI, control_sequence) }
           c1_code == find_code(C1_CODES, control_sequence, 1)
           independent_code == find_code(INDEPDENDENT_CODES, control_sequence, 1)
       IN IF ~is_ascii(current_char)
          THEN returns(emit_string_or(self, current_position, next_char_boundary, ESC), used)
          ELSE IF c1_code # 0
          THEN returns(emit_string_or(self, current_position, next_next_char_boundary,
                                      C1_CODES[c1_code]), compared)
          ELSE IF independent_code # 0
          THEN returns(emit_string_or(self, current_position, next_next_char_boundary,
                                      INDEPDENDENT_CODES[independent_code]), compared)
          ELSE IF eq_str(CSI, control_sequence)
          THEN LET control_sequence_position == next_next_char_boundary
                   scanned == control_sequence_loop(self, control_sequence_position,
                                  control_sequence_position,
                                  get_next_char_boundary(self, control_sequence_position),
                                  FALSE, compared)
               IN IF scanned.found
                  THEN returns(emit_string_or(self, current_position, scanned.end,
                                              scanned.function), scanned.slices)
                  ELSE falls(scanned.slices)
          ELSE falls(compared)

\* next(), the branch taken when the current character is ESC: what it returns, or
\* `falls` when the control sequence scan broke off and the while loop goes on
escape_branch(self, current_position, next_char_boundary) ==
    LET value == self.value
        falls(used) == [falls |-> TRUE, result |-> Returns(FALSE, String(<<>>), 0, used)]
        returns(result, used) ==
            [falls |-> FALSE, result |-> [result EXCEPT !.slices = @ \cup used]]
    IN IF self.max_position = next_char_boundary
       THEN returns(emit_string_or(self, current_position, next_char_boundary, ESC), {})
       ELSE
       LET next_next_char_boundary == get_next_char_boundary(self, next_char_boundary)
           current_char == Slice(value, next_char_boundary, next_next_char_boundary)
           control_sequence == Slice(value, current_position, next_next_char_boundary)
           used == { <<next_char_boundary, next_next_char_boundary>>,
                     <<current_position, next_next_char_boundary>> }
           compared == used \cup
               { <<current_position + s[1], current_position + s[2]>> :
                     s \in eq_str_slices(CSI, control_sequence) }
           c1_code == find_code(C1_CODES, control_sequence, 1)
           independent_code == find_code(INDEPDENDENT_CODES, control_sequence, 1)
       IN IF ~is_ascii(current_char)
          THEN returns(emit_string_or(self, current_position, next_char_boundary, ESC), used)
          ELSE IF c1_code # 0
          THEN returns(emit_string_or(self, current_position, next_next_char_boundary,
                                      C1_CODES[c1_code]), compared)
          ELSE IF independent_code # 0
          THEN returns(emit_string_or(self, current_position, next_next_char_boundary,
                                      INDEPDENDENT_CODES[independent_code]), compared)
          ELSE IF eq_str(CSI, control_sequence)
          THEN LET control_sequence_position == next_next_char_boundary
                   scanned == control_sequence_loop(self, control_sequence_position,
                                  control_sequence_position,
                                  get_next_char_boundary(self, control_sequence_position),
                                  FALSE, compared)
               IN IF scanned.found
                  THEN returns(emit_string_or(self, current_position, scanned.end,
                                              scanned.function), scanned.slices)
                  ELSE falls(scanned.slices)
          ELSE returns(emit_string_or(self, current_position, next_char_boundary, ESC),
                       compared)

\* scan that takes the rest of the input for text once a control sequence scan broke off
RECURSIVE scan_giving_up(_, _, _)
scan_giving_up(self, current_position, used) ==
    IF ~(current_position < self.max_position)
    THEN [emit_current_string(self, current_position) EXCEPT !.slices = @ \cup used]
    ELSE
    LET next_char_boundary == get_next_char_boundary(self, current_position)
        current_char == Slice(self.value, current_position, next_char_boundary)
        used1 == used \cup { <<current_position, next_char_boundary>> }
        c0_code == find_code(C0_CODES, current_char, 1)
    IN IF ~is_ascii(current_char)
       THEN scan_giving_up(self, next_char_boundary, used1)
       ELSE IF c0_code # 0
       THEN [emit_string_or(self, current_position, next_char_boundary, C0_CODES[c0_code])
                EXCEPT !.slices = @ \cup used1]
       ELSE IF eq_str(ESC, current_char)
       THEN LET branch == escape_branch(self, current_position, next_char_boundary)
            IN IF branch.falls
               THEN scan_giving_up(self, self.max_position, used1 \cup branch.result.slices)
               ELSE [branch.result EXCEPT !.slices = @ \cup used1]
       ELSE scan_giving_up(self, next_char_boundary, used1)

\* next(): the while loop from current_position on, then the end-of-input flush
RECURSIVE scan(_, _, _)
scan(self, current_position, used) ==
    IF ~(current_position < self.max_position)
    THEN [emit_current_string(self, current_position) EXCEPT !.slices = @ \cup used]
    ELSE
    LET next_char_boundary == get_next_char_boundary(self, current_position)
        current_char == Slice(self.value, current_position, next_char_boundary)
        used1 == used \cup { <<current_position, next_char_boundary>> }
        c0_code == find_code(C0_CODES, current_char, 1)
    IN IF ~is_ascii(current_char)
       THEN scan(self, next_char_boundary, used1)
       ELSE IF c0_code # 0
       THEN [emit_string_or(self, current_position, next_char_boundary, C0_CODES[c0_code])
                EXCEPT !.slices = @ \cup used1]
       ELSE IF eq_str(ESC, current_char)
       THEN LET branch == escape_branch(self, current_position, next_char_boundary)
            IN IF branch.falls
               THEN scan(self, next_char_boundary, used1 \cup branch.result.slices)
               ELSE [branch.result EXCEPT !.slices = @ \cup used1]
       ELSE scan(self, next_char_boundary, used1)

\* impl Iterator for TokenStream: next(); `panic` when a slice it takes is out of range
\* or off a character boundary
next(self) ==
    LET result == scan(self, self.position, {})
    IN [some |-> result.some, token |-> result.token, position |-> result.position,
        slices |-> result.slices,
        panic |-> \E s \in result.slices : ~SliceOK(self.value, s[1], s[2])]

-----------------------------------------------------------------------------
(* Inputs of the decoder *)

\* the chunks inputs are built from: ESC, BEL, "[", "1", ";", " ", "H", "c", a two-byte
\* character, and CSI as rendered (ESC "[")
Chunks ==
    { ESC.value, BEL.value, CSI.value, ascii(3, 1), PARAMETER_SEPARATOR, ascii(2, 0),
      ascii(4, 8), RIS.value, << 195, 164 >>, Display(CSI) }

RECURSIVE Strings(_)
Strings(n) ==
    IF n = 0 THEN { <<>> }
    ELSE { <<>> } \cup { c \o s : c \in Chunks, s \in Strings(n - 1) }

-----------------------------------------------------------------------------
(* The decoder run over an arbitrary input *)

Init ==
    /\ \E input \in Strings(MaxLen) : stream = from(input)
    /\ tokens = <<>>
    /\ returned = "start"
    /\ calls = 0
    /\ slices = {}
    /\ fn = NoFunction
    /\ outcome = "none"
    /\ arg = [call |-> "none"]
    /\ pc = "decode"

\* one call of TokenStream::next
NextToken ==
    /\ pc = "decode"
    /\ returned # "panic"
    /\ calls - Len(tokens) <= MaxNoneCalls
    /\ Len(tokens) <= Len(stream.value) + 1
    /\ \E result \in { next(stream) } :
          /\ calls' = calls + 1
          /\ slices' = result.slices
          /\ IF result.panic
             THEN /\ returned' = "panic"
                  /\ UNCHANGED <<stream, tokens>>
             ELSE /\ stream' = [stream EXCEPT !.position = result.position]
                  /\ tokens' = IF result.some THEN Append(tokens, result.token) ELSE tokens
                  /\ returned' = IF result.some THEN "Some" ELSE "None"
    /\ UNCHANGED <<fn, outcome, arg, pc>>

Next == NextToken

Spec == Init /\ [][Next]_vars

-----------------------------------------------------------------------------
(* A standard value built, rendered and decoded *)

\* the elements of a sequence
Range(seq) == { seq[i] : i \in 1..Len(seq) }

\* the `pub const` control functions of c0.rs, c1.rs and independent_control_functions.rs
\* (LS0 and LS1 of c0.rs are SI and SO again)
Constants ==
    Range(C0_CODES) \cup { ESC } \cup Range(C1_CODES) \cup { CSI } \cup Range(INDEPDENDENT_CODES)

\* lists handed to the variadic builders
MaxVariadic == 2

RECURSIVE Lists(_, _)
Lists(S, n) ==
    IF n = 0 THEN { <<>> }
    ELSE { <<>> } \cup { << x >> \o l : x \in S, l \in Lists(S, n - 1) }

\* the argument tuples a builder accepts
RECURSIVE ArgTuples(_, _)
ArgTuples(builder, i) ==
    IF i > Len(builder.optional) THEN { <<>> }
    ELSE LET some == IF builder.variadic
                     THEN { << l >> : l \in Lists(builder.domain[i], MaxVariadic) }
                     ELSE { << x >> : x \in builder.domain[i] }
             none == IF builder.optional[i] THEN { <<>> } ELSE {}
         IN { << a >> \o rest : a \in some \cup none, rest \in ArgTuples(builder, i + 1) }

StandardCalls ==
    { [call |-> "constant", value |-> f] : f \in Constants }
    \cup UNION { { [call |-> "sequence", builder |-> b, args |-> a] : a \in ArgTuples(b, 1) } :
                 b \in Builders }

InitRoundTrip ==
    /\ arg \in StandardCalls
    /\ stream = from(<<>>)
    /\ tokens = <<>>
    /\ returned = "start"
    /\ calls = 0
    /\ slices = {}
    /\ fn = NoFunction
    /\ outcome = "none"
    /\ pc = "build"

\* the constant is taken, or the builder called
Construct ==
    /\ pc = "build"
    /\ arg.call \in { "constant", "sequence" }
    /\ fn' = IF arg.call = "constant" THEN arg.value ELSE sequence(arg.builder, arg.args)
    /\ outcome' = "Ok"
    /\ pc' = "render"
    /\ UNCHANGED <<stream, tokens, returned, calls, slices, arg>>

\* format!("{}", fn), handed to TokenStream::from
Render ==
    /\ pc = "render"
    /\ outcome = "Ok"
    /\ stream' = from(Display(fn))
    /\ pc' = "decode"
    /\ UNCHANGED <<tokens, returned, calls, slices, fn, outcome, arg>>

NextRoundTrip == Construct \/ Render \/ NextToken

SpecRoundTrip == InitRoundTrip /\ [][NextRoundTrip]_vars

-----------------------------------------------------------------------------
(* private_use called on an arbitrary identifier *)

\* identifier characters: " ", "@", "o", "p", DEL and a two-byte character
IdentifierChars ==
    { ascii(2, 0), ascii(4, 0), ascii(6, 15), ascii(7, 0), ascii(7, 15), << 195, 164 >> }

\* characters of an identifier
MaxIdentifier == 3

RECURSIVE Identifiers(_)
Identifiers(n) ==
    IF n = 0 THEN { <<>> }
    ELSE { <<>> } \cup { c \o s : c \in IdentifierChars, s \in Identifiers(n - 1) }

\* parameter lists: none, "0", "5" and "13", one empty field, one field that is no number
ParameterLists ==
    { <<>>, << to_string(0) >>, << to_string(5), to_string(13) >>, << <<>> >>,
      << ascii(7, 8) >> }

InitPrivateUse ==
    /\ \E value \in Identifiers(MaxIdentifier), parameters \in ParameterLists :
           arg = [call |-> "private_use", value |-> value, parameters |-> parameters]
    /\ stream = from(<<>>)
    /\ tokens = <<>>
    /\ returned = "start"
    /\ calls = 0
    /\ slices = {}
    /\ fn = NoFunction
    /\ outcome = "none"
    /\ pc = "build"

\* ControlFunction::private_use(value, parameters)
CallPrivateUse ==
    /\ pc = "build"
    /\ arg.call = "private_use"
    /\ \E r \in { private_use(arg.value, arg.parameters) } :
          /\ outcome' = r.result
          /\ fn' = r.fn
    /\ pc' = "render"
    /\ UNCHANGED <<stream, tokens, returned, calls, slices, arg>>

NextPrivateUse == CallPrivateUse

SpecPrivateUse == InitPrivateUse /\ [][NextPrivateUse]_vars

-----------------------------------------------------------------------------
(* A control sequence cut short *)

\* bytes read after CSI before the sequence is cut
MaxBody == 3

RECURSIVE Bodies(_)
Bodies(n) ==
    IF n = 0 THEN { <<>> }
    ELSE { <<>> } \cup { c \o s : c \in { ascii(3, 1), PARAMETER_SEPARATOR, ascii(2, 0) },
                                  s \in Bodies(n - 1) }

\* what cuts the sequence: the end of the input, or a character that is not ASCII
Cuts == { <<>>, << 195, 164 >>, << 226, 130, 172 >> }

\* the input is ESC, CSI as rendered, parameter and intermediate bytes, then the cut;
\* the leading ESC may be missing
InitTruncated ==
    /\ \E lead \in { <<>>, Display(ESC) }, body \in Bodies(MaxBody), cut \in Cuts :
          /\ stream = from(lead \o Display(CSI) \o body \o cut)
          /\ arg = [call |-> "none", lead |-> lead, body |-> body, cut |-> cut]
    /\ tokens = <<>>
    /\ returned = "start"
    /\ calls = 0
    /\ slices = {}
    /\ fn = NoFunction
    /\ outcome = "none"
    /\ pc = "decode"

SpecTruncated == InitTruncated /\ [][Next]_vars

-----------------------------------------------------------------------------
(* A catalog function between two texts *)

\* characters of the texts: "[" and a two-byte character
TextChars == { CSI.value, << 195, 164 >> }

\* characters of a text
MaxText == 2

\* the non-empty texts
RECURSIVE Texts(_)
Texts(n) ==
    IF n = 1 THEN TextChars
    ELSE TextChars \cup { c \o s : c \in TextChars, s \in Texts(n - 1) }

\* the functions next() finds by a table lookup
CatalogCodes == Range(C0_CODES) \cup Range(C1_CODES) \cup Range(INDEPDENDENT_CODES)

\* format!("{}{}{}", a, f, b), handed to TokenStream::from
InitInterleaved ==
    /\ \E a \in Texts(MaxText), f \in CatalogCodes, b \in Texts(MaxText) :
          /\ stream = from(a \o Display(f) \o b)
          /\ arg = [call |-> "none", a |-> a, f |-> f, b |-> b]
    /\ tokens = <<>>
    /\ returned = "start"
    /\ calls = 0
    /\ slices = {}
    /\ fn = NoFunction
    /\ outcome = "none"
    /\ pc = "decode"

SpecInterleaved == InitInterleaved /\ [][Next]_vars

-----------------------------------------------------------------------------
(* A private-use control sequence built, rendered with others after it, and decoded *)

\* identifiers: "p", DEL, " p", " " DEL, and "@", which is outside the private-use area
PrivateIdentifiers ==
    { ascii(7, 0), ascii(7, 15), ascii2(2, 0, 7, 0), ascii2(2, 0, 7, 15), ascii(4, 0) }

\* parameter entries: the empty string, "5" and "13"
Fields == { <<>>, to_string(5), to_string(13) }

\* entries of a parameter list
MaxFields == 2

\* control sequences rendered after the first one
MaxFollow == 2

\* the builder of control_sequences.rs with this name
BuilderNamed(name) == CHOOSE b \in Builders : b.name = name

\* CUP(23.into(), 6.into()) and DA(DeviceAttributes::Identify(62).into())
FollowFunctions ==
    { sequence(BuilderNamed("CUP"), << << 23 >>, << 6 >> >>),
      sequence(BuilderNamed("DA"), << << 62 >> >>) }

\* the concatenation of the rendered functions of a list
RECURSIVE DisplayAll(_)
DisplayAll(list) ==
    IF Len(list) = 0 THEN <<>> ELSE Display(list[1]) \o DisplayAll(Tail(list))

InitPrivateRoundTrip ==
    /\ \E value \in PrivateIdentifiers, parameters \in Lists(Fields, MaxFields),
          follow \in Lists(FollowFunctions, MaxFollow) :
           arg = [call |-> "private_use", value |-> value, parameters |-> parameters,
                  follow |-> follow]
    /\ stream = from(<<>>)
    /\ tokens = <<>>
    /\ returned = "start"
    /\ calls = 0
    /\ slices = {}
    /\ fn = NoFunction
    /\ outcome = "none"
    /\ pc = "build"

\* the value and the control sequences after it are written to one string, which is
\* handed to TokenStream::from
RenderFollowed ==
    /\ pc = "render"
    /\ outcome = "Ok"
    /\ stream' = from(Display(fn) \o DisplayAll(arg.follow))
    /\ pc' = "decode"
    /\ UNCHANGED <<tokens, returned, calls, slices, fn, outcome, arg>>

NextPrivateRoundTrip == CallPrivateUse \/ RenderFollowed \/ NextToken

SpecPrivateRoundTrip == InitPrivateRoundTrip /\ [][NextPrivateRoundTrip]_vars

-----------------------------------------------------------------------------
(* A control sequence with arbitrary parameter bytes *)

\* bytes after CSI: "0" (03/00), ":" (03/10), ";" (03/11), "?" (03/15), and "/" (02/15),
\* which is no parameter byte
ParameterChars ==
    { ascii(3, 0), ascii(3, 10), PARAMETER_SEPARATOR, ascii(3, 15), ascii(2, 15) }

\* bytes between CSI and the identifier
MaxParameterBytes == 3

RECURSIVE ParameterStrings(_)
ParameterStrings(n) ==
    IF n = 0 THEN { <<>> }
    ELSE { <<>> } \cup { c \o s : c \in ParameterChars, s \in ParameterStrings(n - 1) }

\* the identifiers "H", "p", " H" and " p"
FinalBytes == { ascii(4, 8), ascii(7, 0), ascii2(2, 0, 4, 8), ascii2(2, 0, 7, 0) }

\* the input is CSI as rendered, the bytes, and an identifier
InitParameterBytes ==
    /\ \E body \in ParameterStrings(MaxParameterBytes), final \in FinalBytes :
          /\ stream = from(Display(CSI) \o body \o final)
          /\ arg = [call |-> "none", body |-> body, final |-> final]
    /\ tokens = <<>>
    /\ returned = "start"
    /\ calls = 0
    /\ slices = {}
    /\ fn = NoFunction
    /\ outcome = "none"
    /\ pc = "decode"

SpecParameterBytes == InitParameterBytes /\ [][Next]_vars

-----------------------------------------------------------------------------
(* Every way a value comes to be: a constant, a builder, the decoder *)

InitValues == Init \/ InitRoundTrip

SpecValues == InitValues /\ [][NextRoundTrip]_vars

-----------------------------------------------------------------------------
(* A control function compared with a string *)

\* the functions compared: the constants, CUP(5, 13), SGR(Some(vec![])) and the private-use
\* sequence " p" with the parameter "5"
ComparedFunctions ==
    Constants \cup
    { sequence(BuilderNamed("CUP"), << << 5 >>, << 13 >> >>),
      sequence(BuilderNamed("SGR"), << << <<>> >> >>),
      private_use(ascii2(2, 0, 7, 0), << to_string(5) >>).fn }

\* characters of the strings compared: ESC, BEL, "E", "["
OtherChars == { ESC.value, BEL.value, NEL.value, CSI.value }

\* characters of a string that is not built as the rendering of a function
MaxOther == 2

RECURSIVE OtherStrings(_)
OtherStrings(n) ==
    IF n = 0 THEN { <<>> }
    ELSE { <<>> } \cup { c \o s : c \in OtherChars, s \in OtherStrings(n - 1) }

\* the strings compared: every rendered function, short strings of the characters above,
\* and a character of two bytes
ComparedStrings ==
    { Display(f) : f \in ComparedFunctions } \cup OtherStrings(MaxOther)
        \cup { << 195, 164 >> }

InitEq ==
    /\ \E f \in ComparedFunctions, other \in ComparedStrings :
          /\ fn = f
          /\ arg = [call |-> "eq", other |-> other]
    /\ stream = from(<<>>)
    /\ tokens = <<>>
    /\ returned = "start"
    /\ calls = 0
    /\ slices = {}
    /\ outcome = "none"
    /\ pc = "build"

\* the outcome of a comparison: `panic` when a slice eq takes of the string is off a
\* character boundary
Compared(equal) ==
    IF \E s \in eq_str_slices(fn, arg.other) : ~SliceOK(arg.other, s[1], s[2])
    THEN "panic"
    ELSE IF equal THEN "true" ELSE "false"

\* fn == other
CompareWithStr ==
    /\ pc = "build"
    /\ arg.call = "eq"
    /\ outcome' = Compared(eq_str(fn, arg.other))
    /\ pc' = "eq"
    /\ UNCHANGED <<stream, tokens, returned, calls, slices, fn, arg>>

\* other == fn, other a &str
CompareStrWith ==
    /\ pc = "build"
    /\ arg.call = "eq"
    /\ outcome' = Compared(eq_reversed(arg.other, fn))
    /\ pc' = "eq_str"
    /\ UNCHANGED <<stream, tokens, returned, calls, slices, fn, arg>>

\* other == fn, other a String
CompareStringWith ==
    /\ pc = "build"
    /\ arg.call = "eq"
    /\ outcome' = Compared(eq_reversed(arg.other, fn))
    /\ pc' = "eq_string"
    /\ UNCHANGED <<stream, tokens, returned, calls, slices, fn, arg>>

NextEq == CompareWithStr \/ CompareStrWith \/ CompareStringWith

SpecEq == InitEq /\ [][NextEq]_vars

-----------------------------------------------------------------------------
(* Two TokenStreams over two inputs, their next() calls interleaved *)

\* the inputs: "[" NEL and a two-byte character; CUP(5, 13) and "["; ESC alone; BEL "H";
\* ESC "[" "1", an unfinished control sequence
IndependentInputs ==
    { CSI.value \o Display(NEL) \o << 195, 164 >>,
      Display(sequence(BuilderNamed("CUP"), << << 5 >>, << 13 >> >>)) \o CSI.value,
      ESC.value,
      BEL.value \o ascii(4, 8),
      Display(CSI) \o ascii(3, 1) }

\* in this run stream, tokens, returned, calls and slices hold one entry per instance
InitTwoStreams ==
    /\ \E first \in IndependentInputs, second \in IndependentInputs :
          stream = << from(first), from(second) >>
    /\ tokens = << <<>>, <<>> >>
    /\ returned = << "start", "start" >>
    /\ calls = << 0, 0 >>
    /\ slices = << {}, {} >>
    /\ fn = NoFunction
    /\ outcome = "none"
    /\ arg = [call |-> "none"]
    /\ pc = "decode"

\* next() of the instance i that reads the cursor of the other instance
next_of_shared_cursor(streams, i) ==
    next([streams[i] EXCEPT !.position = streams[3 - i].position])

\* next() called on instance i: it is handed `&mut self`, the fields of that instance
next_of(streams, i) == next(streams[i])

\* one call of next() on instance i
NextTokenOf(i) ==
    /\ pc = "decode"
    /\ returned[i] # "panic"
    /\ calls[i] - Len(tokens[i]) <= MaxNoneCalls
    /\ \E result \in { next_of(stream, i) } :
          /\ calls' = [calls EXCEPT ![i] = @ + 1]
          /\ slices' = [slices EXCEPT ![i] = result.slices]
          /\ IF result.panic
             THEN /\ returned' = [returned EXCEPT ![i] = "panic"]
                  /\ UNCHANGED <<stream, tokens>>
             ELSE /\ stream' = [stream EXCEPT ![i].position = result.position]
                  /\ tokens' = IF result.some
                               THEN [tokens EXCEPT ![i] = Append(@, result.token)]
                               ELSE tokens
                  /\ returned' = [returned EXCEPT ![i] = IF result.some THEN "Some"
                                                         ELSE "None"]
    /\ UNCHANGED <<fn, outcome, arg, pc>>

NextTokenOfFirst == NextTokenOf(1)

NextTokenOfSecond == NextTokenOf(2)

NextTwoStreams == NextTokenOfFirst \/ NextTokenOfSecond

SpecTwoStreams == InitTwoStreams /\ [][NextTwoStreams]_vars

\* the tokens a TokenStream returns when it is iterated alone, from its position on
RECURSIVE collect(_)
collect(self) ==
    LET result == next(self)
    IN IF result.panic \/ ~result.some THEN <<>>
       ELSE << result.token >> \o collect([self EXCEPT !.position = result.position])

-----------------------------------------------------------------------------
(* Control strings (control_strings.rs) *)

APC == c1(5, 15)
DCS == c1(5, 0)
OSC == c1(5, 13)
PM == c1(5, 14)
SOS == c1(5, 8)
ST == c1(5, 12)

application_program_command(command_string) ==
    Display(APC) \o command_string \o Display(ST)

device_control_string(control_string_) ==
    Display(DCS) \o control_string_ \o Display(ST)

operating_system_command(system_command) ==
    Display(OSC) \o system_command \o Display(ST)

privacy_message(message) ==
    Display(PM) \o message \o Display(ST)

\* control_string without the closing ST
control_string_unterminated(control_string_) ==
    Display(SOS) \o control_string_

control_string(control_string_) ==
    Display(SOS) \o control_string_ \o Display(ST)

\* the five builders, by name
ControlStringBuilders ==
    { "application_program_command", "device_control_string", "operating_system_command",
      "privacy_message", "control_string" }

\* the builder called
CallControlString(name, payload) ==
    CASE name = "application_program_command" -> application_program_command(payload)
      [] name = "device_control_string" -> device_control_string(payload)
      [] name = "operating_system_command" -> operating_system_command(payload)
      [] name = "privacy_message" -> privacy_message(payload)
      [] name = "control_string" -> control_string(payload)

\* payloads: the empty one, texts, and one with a BEL in it
Payloads == { <<>>, BEL.value \o CSI.value } \cup Texts(MaxText)

InitControlString ==
    /\ \E name \in ControlStringBuilders, payload \in Payloads :
          arg = [call |-> "control_string", name |-> name, payload |-> payload]
    /\ stream = from(<<>>)
    /\ tokens = <<>>
    /\ returned = "start"
    /\ calls = 0
    /\ slices = {}
    /\ fn = NoFunction
    /\ outcome = "none"
    /\ pc = "build"

\* the builder is called and its String handed to TokenStream::from
BuildControlString ==
    /\ pc = "build"
    /\ arg.call = "control_string"
    /\ stream' = from(CallControlString(arg.name, arg.payload))
    /\ pc' = "decode"
    /\ UNCHANGED <<tokens, returned, calls, slices, fn, outcome, arg>>

NextControlString == BuildControlString \/ NextToken

SpecControlString == InitControlString /\ [][NextControlString]_vars

-----------------------------------------------------------------------------
(* What follows the introducer *)

\* characters after ESC [: a digit, the separator, the intermediate byte, two final
\* bytes (one of them the last of the range, 07/15), a byte below the parameter bytes,
\* and a two-byte character
ScanChars ==
    { ascii(3, 1), PARAMETER_SEPARATOR, ascii(2, 0), ascii(4, 8), ascii(7, 15), ascii(2, 15),
      << 195, 164 >> }

\* characters after the introducer
MaxTail == 3

RECURSIVE Tails(_)
Tails(n) ==
    IF n = 0 THEN { <<>> }
    ELSE { <<>> } \cup { c \o s : c \in ScanChars, s \in Tails(n - 1) }

InitScan ==
    /\ \E tail \in Tails(MaxTail) :
          /\ stream = from(Display(CSI) \o tail)
          /\ arg = [call |-> "scan", tail |-> tail]
    /\ tokens = <<>>
    /\ returned = "start"
    /\ calls = 0
    /\ slices = {}
    /\ fn = NoFunction
    /\ outcome = "none"
    /\ pc = "decode"

SpecScan == InitScan /\ [][Next]_vars

-----------------------------------------------------------------------------
(* What follows an ESC *)

\* the character after the ESC: BEL, ESC, "1", "@" (04/00, not allocated), "E" (NEL),
\* "[" (the introducer), "c" (RIS) and DEL
FollowChars ==
    { BEL.value, ESC.value, ascii(3, 1), ascii(4, 0), ascii(4, 5), ascii(5, 11), ascii(6, 3),
      ascii(7, 15) }

\* the characters after that one
RestChars == { ascii(4, 0), ascii(4, 5), ascii(5, 11), << 195, 164 >> }

MaxRest == 2

RECURSIVE Rests(_)
Rests(n) ==
    IF n = 0 THEN { <<>> }
    ELSE { <<>> } \cup { c \o s : c \in RestChars, s \in Rests(n - 1) }

InitEscape ==
    /\ \E follow \in FollowChars, rest \in Rests(MaxRest) :
          /\ stream = from(ESC.value \o follow \o rest)
          /\ arg = [call |-> "escape", follow |-> follow, rest |-> rest]
    /\ tokens = <<>>
    /\ returned = "start"
    /\ calls = 0
    /\ slices = {}
    /\ fn = NoFunction
    /\ outcome = "none"
    /\ pc = "decode"

SpecEscape == InitEscape /\ [][Next]_vars

-----------------------------------------------------------------------------
(* Text and functions mixed *)

\* the chunks of a mixed input: ESC, BEL, "[", "1", "H" and a two-byte character
MixedChunks ==
    { ESC.value, BEL.value, CSI.value, ascii(3, 1), ascii(4, 8), << 195, 164 >> }

\* chunks of a mixed input
MaxMixed == 4

RECURSIVE Mixed(_)
Mixed(n) ==
    IF n = 0 THEN { <<>> }
    ELSE { <<>> } \cup { c \o s : c \in MixedChunks, s \in Mixed(n - 1) }

InitMixed ==
    /\ \E value \in Mixed(MaxMixed) : stream = from(value)
    /\ tokens = <<>>
    /\ returned = "start"
    /\ calls = 0
    /\ slices = {}
    /\ fn = NoFunction
    /\ outcome = "none"
    /\ arg = [call |-> "mixed"]
    /\ pc = "decode"

SpecMixed == InitMixed /\ [][Next]_vars

-----------------------------------------------------------------------------
(* A C0 byte anywhere in the input *)

\* the bytes 00/00 - 01/15 other than ESC
C0Bytes == (0..31) \ { 27 }

\* characters of an input around a C0 byte
MaxAround == 3

\* the inputs of up to n characters out of the byte, ESC, "[" and "1"
RECURSIVE Around(_, _)
Around(byte, n) ==
    IF n = 0 THEN { <<>> }
    ELSE { <<>> } \cup { c \o s : c \in { << byte >>, ESC.value, CSI.value, ascii(3, 1) },
                                  s \in Around(byte, n - 1) }

InitC0 ==
    /\ \E byte \in C0Bytes : \E value \in Around(byte, MaxAround) :
          /\ stream = from(value)
          /\ arg = [call |-> "c0", byte |-> byte]
    /\ tokens = <<>>
    /\ returned = "start"
    /\ calls = 0
    /\ slices = {}
    /\ fn = NoFunction
    /\ outcome = "none"
    /\ pc = "decode"

SpecC0 == InitC0 /\ [][Next]_vars

-----------------------------------------------------------------------------
(* What follows a control sequence scan *)

\* the input is ESC [ and a mixed input
InitFailedScan ==
    /\ \E rest \in Mixed(MaxMixed) :
          /\ stream = from(Display(CSI) \o rest)
          /\ arg = [call |-> "failed", rest |-> rest]
    /\ tokens = <<>>
    /\ returned = "start"
    /\ calls = 0
    /\ slices = {}
    /\ fn = NoFunction
    /\ outcome = "none"
    /\ pc = "decode"

SpecFailedScan == InitFailedScan /\ [][Next]_vars

-----------------------------------------------------------------------------
(* The classification of the explain module (explain.rs) *)

\* function(): the match of the C0 arm on the byte of the value
function_C0(byte) ==
    CASE byte \in 0..31 ->
            << "NUL", "SOH", "STX", "ETX", "EOT", "ENQ", "ACK", "BEL", "BS", "HT", "LF", "VT",
               "FF", "CR", "LS1", "LS0", "DLE", "DC1", "DC2", "DC3", "DC4", "NAK", "SYN",
               "ETB", "CAN", "EM", "SUB", "ESC", "IS4", "IS3", "IS2", "IS1" >>[byte - -1]
      [] OTHER -> "unreachable"

\* function(): the match of the C1 arm
function_C1(byte) ==
    CASE byte \in 66..67 ->
            << "BPH", "NBH" >>[byte - 65]
      [] byte \in 69..88 ->
            << "NEL", "SSA", "ESA", "HTS", "HTJ", "VTS", "PLD", "PLU", "RI", "SS2", "SS3",
               "DCS", "PU1", "PU2", "STS", "CCH", "MW", "SPA", "EPA", "SOS" >>[byte - 68]
      [] byte \in 90..95 ->
            << "SCI", "CSI", "ST", "OSC", "PM", "APC" >>[byte - 89]
      [] OTHER -> "unreachable"

\* function(): the match of the IndependentControlFunction arm
function_IndependentControlFunction(byte) ==
    CASE byte \in 96..100 ->
            << "DMI", "INT", "EMI", "RIS", "CMD" >>[byte - 95]
      [] byte \in 110..111 ->
            << "LS2", "LS3" >>[byte - 109]
      [] byte \in 124..126 ->
            << "LS3R", "LS2R", "LS1R" >>[byte - 123]
      [] OTHER -> "unreachable"

\* function(): the match of the ControlSequence arm on a value of one byte
function_ControlSequence(byte) ==
    CASE byte \in 64..94 ->
            << "ICH", "CUU", "CUD", "CUF", "CUB", "CNL", "CPL", "CHA", "CUP", "CHT", "ED",
               "EL", "IL", "DL", "EF", "EA", "DCH", "SEE", "CPR", "SU", "SD", "NP", "PP",
               "CTC", "ECH", "CVT", "CBT", "SRS", "PTX", "SDS", "SIMD" >>[byte - 63]
      [] byte \in 96..127 ->
            << "HPA", "HPR", "REP", "DA", "VPA", "VPR", "HVP", "TBC", "SM", "MC", "HPB", "VPB",
               "RM", "SGR", "DSR", "DAQ", "PRIVATE", "PRIVATE", "PRIVATE", "PRIVATE",
               "PRIVATE", "PRIVATE", "PRIVATE", "PRIVATE", "PRIVATE", "PRIVATE", "PRIVATE",
               "PRIVATE", "PRIVATE", "PRIVATE", "PRIVATE", "PRIVATE" >>[byte - 95]
      [] OTHER -> "unreachable"

\* function(): the match of the ControlSequence arm on the second byte of a value of two
function_ControlSequence_intermediate(byte) ==
    CASE byte \in 64..77 ->
            << "SL", "SR", "GSM", "GSS", "FNT", "TSS", "JFY", "SPI", "QUAD", "SSU", "PFS",
               "SHS", "SVS", "IGS" >>[byte - 63]
      [] byte \in 79..107 ->
            << "IDCS", "PPA", "PPR", "PPB", "SPD", "DTA", "SLH", "SLL", "FNK", "SPQR", "SEF",
               "PEC", "SSW", "SACS", "SAPV", "STAB", "GCC", "TATE", "TALE", "TAC", "TCC",
               "TSR", "SCO", "SRCS", "SCS", "SLS", "SPH", "SPL", "SCP" >>[byte - 78]
      [] byte \in 112..127 ->
            "PRIVATE"
      [] OTHER -> "unreachable"


\* explain::function: the Function a control function is classified as, or `unreachable`
\* where it runs into unreachable!()
function(control_function) ==
    LET bytes == control_function.value
    IN CASE control_function.function_type = "C0" -> function_C0(bytes[1])
         [] control_function.function_type = "C1" -> function_C1(bytes[1])
         [] control_function.function_type = "IndependentControlFunction" ->
               function_IndependentControlFunction(bytes[1])
         [] control_function.function_type = "ControlSequence" ->
               IF Len(bytes) = 1 THEN function_ControlSequence(bytes[1])
               ELSE IF Len(bytes) = 2 THEN function_ControlSequence_intermediate(bytes[2])
               ELSE "unreachable"

\* the inputs explained: a C0 byte, ESC and a byte of 04/00 - 07/14, and ESC [ with or
\* without a parameter and the intermediate byte before each final byte 04/00 - 07/15
ExplainedInputs ==
    { << byte >> : byte \in 0..31 }
        \cup { ESC.value \o << byte >> : byte \in 64..126 }
        \cup { Display(CSI) \o parameter \o intermediate \o << byte >> :
                  parameter \in { <<>>, ascii(3, 1) }, intermediate \in { <<>>, ascii(2, 0) },
                  byte \in 64..127 }

InitExplain ==
    /\ \E value \in ExplainedInputs : stream = from(value)
    /\ tokens = <<>>
    /\ returned = "start"
    /\ calls = 0
    /\ slices = {}
    /\ fn = NoFunction
    /\ outcome = "none"
    /\ arg = [call |-> "explain"]
    /\ pc = "decode"

\* short_name, long_name, short_description or long_description of a control function
\* the decoder returned: each starts with `match function(&self)`
ExplainToken ==
    /\ pc = "decode"
    /\ arg.call = "explain"
    /\ \E i \in 1..Len(tokens) :
          /\ tokens[i].kind = "ControlFunction"
          /\ fn' = tokens[i].cf
          /\ outcome' = function(tokens[i].cf)
    /\ \E method \in { "short_name", "long_name", "short_description", "long_description" } :
          pc' = method
    /\ UNCHANGED <<stream, tokens, returned, calls, slices, arg>>

NextExplain == NextToken \/ ExplainToken

SpecExplain == InitExplain /\ [][NextExplain]_vars

-----------------------------------------------------------------------------
(* Properties of the decoder *)

\* what a token stands for in the input: a String its slice, a ControlFunction its
\* rendered form
RECURSIVE Content(_)
Content(list) ==
    IF Len(list) = 0 THEN <<>>
    ELSE (IF list[1].kind = "String" THEN list[1].str ELSE Display(list[1].cf))
         \o Content(Tail(list))

IsSequenceToken(token) ==
    token.kind = "ControlFunction" /\ token.cf.function_type = "ControlSequence"

\* C1: once the stream is exhausted, the contents of the tokens returned, concatenated in
\* order, are the input
ContentReproducesInput ==
    returned = "None" => Content(tokens) = stream.value

\* an exhausted stream that returned text and then a control sequence with two parameter
\* fields
ContentReproducesInputWitness ==
    /\ returned = "None"
    /\ Len(tokens) = 2
    /\ tokens[1].kind = "String"
    /\ IsSequenceToken(tokens[2])
    /\ Len(tokens[2].cf.parameters) = 2

\* C3: next() returns None after at most n tokens for an input of n bytes: a call that
\* returns a token moves the position forward, and after None every call returns None
NextReachesNone ==
    /\ [](Len(tokens) <= Len(stream.value))
    /\ [](calls > Len(stream.value) => returned = "None")
    /\ [][returned' = "Some" => stream'.position > stream.position]_vars
    /\ [][returned = "None" => returned' = "None"]_vars

\* None was returned twice, after three tokens
NextReachesNoneWitness ==
    /\ returned = "None"
    /\ Len(tokens) = 3
    /\ calls = Len(tokens) + 2

\* C4: no call fails: every slice taken lies within the input on character boundaries, so
\* does the position, and the position never decreases
NextNeverFails ==
    /\ [](/\ returned # "panic"
          /\ \A s \in slices : SliceOK(stream.value, s[1], s[2])
          /\ SliceOK(stream.value, stream.position, stream.max_position))
    /\ [][stream'.position >= stream.position]_vars

\* a control sequence with a parameter byte cut by a two-byte character, and an ESC that
\* ends the input, decoded to the end
NextNeverFailsWitness ==
    /\ stream.value = Display(CSI) \o ascii(3, 1) \o << 195, 164 >> \o ESC.value
    /\ returned = "None"
    /\ Len(tokens) = 2

\* no byte of s is a C0 code (ESC included); without ESC no C1 code, independent
\* control function or control sequence can start
NoControlByte(s) == \A i \in 1..Len(s) : s[i] > 31

\* C5 as stated: an input without control bytes decodes to one String token, the input
TextPassesThroughAlways ==
    (NoControlByte(stream.value) /\ returned = "None") => tokens = << String(stream.value) >>

\* C5 amended: a non-empty input without control bytes decodes to one String token, the
\* input
TextPassesThrough ==
    (stream.value # <<>> /\ NoControlByte(stream.value) /\ returned = "None")
        => tokens = << String(stream.value) >>

\* text with a two-byte character and the bytes "[", "H" and "c", decoded to the end
TextPassesThroughWitness ==
    /\ stream.value = << 195, 164 >> \o CSI.value \o ascii(4, 8) \o RIS.value
    /\ returned = "None"
    /\ tokens = << String(stream.value) >>

-----------------------------------------------------------------------------
(* Properties of the constructors and of Display *)

\* C2 as stated: every standard value renders to a string that decodes to that value alone
RoundTripOfEveryValue ==
    (pc = "decode" /\ returned = "None") => tokens = << ControlFunction(fn) >>

\* C2 amended: every standard value other than CSI and other than a control sequence
\* without parameters (a variadic builder given the empty list) renders to a string that
\* decodes to that value alone
RoundTrip ==
    (/\ pc = "decode"
     /\ returned = "None"
     /\ fn # CSI
     /\ ~(fn.function_type = "ControlSequence" /\ fn.parameters = <<>>))
        => tokens = << ControlFunction(fn) >>

\* a variadic builder given two elements, rendered and decoded to the end
RoundTripWitness ==
    /\ pc = "decode"
    /\ returned = "None"
    /\ arg.call = "sequence"
    /\ arg.builder.variadic
    /\ Len(fn.parameters) = 2
    /\ tokens = << ControlFunction(fn) >>

\* the bytes of the first k parameter entries
RECURSIVE EntryBytes(_, _)
EntryBytes(parameters, k) ==
    IF k = 0 THEN 0 ELSE Len(parameters[k]) + EntryBytes(parameters, k - 1)

\* C10: a control sequence renders as ESC, "[", the entries with one ";" between
\* consecutive entries and none before or after, then the identifier; CUP(5, 13) renders
\* as ESC [ 5 ; 1 3 H
SequenceRendering ==
    (pc = "decode" /\ fn.function_type = "ControlSequence") =>
        LET s == stream.value
            p == fn.parameters
            n == Len(p)
            start(i) == 2 + EntryBytes(p, i - 1) + (i - 1)
        IN /\ Len(s) = 2 + EntryBytes(p, n) + (IF n = 0 THEN 0 ELSE n - 1) + Len(fn.value)
           /\ s[1] = 27
           /\ s[2] = 91
           /\ \A i \in 1..n : SubSeq(s, start(i) + 1, start(i) + Len(p[i])) = p[i]
           /\ \A i \in 1..(n - 1) : s[start(i) + Len(p[i]) + 1] = 59
           /\ SubSeq(s, Len(s) - Len(fn.value) + 1, Len(s)) = fn.value
           /\ (/\ arg.call = "sequence"
               /\ arg.builder.name = "CUP"
               /\ arg.args = << << 5 >>, << 13 >> >>)
                 => s = << 27, 91, 53, 59, 49, 51, 72 >>

\* CUP(Some(5), Some(13)) rendered
SequenceRenderingWitness ==
    /\ pc = "decode"
    /\ arg.call = "sequence"
    /\ arg.builder.name = "CUP"
    /\ arg.args = << << 5 >>, << 13 >> >>
    /\ stream.value = << 27, 91, 53, 59, 49, 51, 72 >>

\* the identifier is ASCII, 1 or 2 bytes long, starts with 0x20 when 2 bytes long, and
\* ends with a byte of 0x70..0x7F
ValidPrivateUse(value) ==
    /\ \A i \in 1..Len(value) : value[i] < 128
    /\ Len(value) \in { 1, 2 }
    /\ Len(value) = 2 => value[1] = 32
    /\ value[Len(value)] \in 112..127

\* C7: private_use returns Ok exactly for the valid identifiers, and then the value is a
\* control sequence with the identifier and the parameters given
PrivateUseOk ==
    pc = "render" =>
        /\ outcome = "Ok" <=> ValidPrivateUse(arg.value)
        /\ outcome = "Ok" =>
              fn = [function_type |-> "ControlSequence", value |-> arg.value,
                    parameters |-> arg.parameters]

\* private_use returned Ok for a 2-byte identifier and two parameters
PrivateUseOkWitness ==
    /\ pc = "render"
    /\ outcome = "Ok"
    /\ Len(arg.value) = 2
    /\ Len(arg.parameters) = 2

\* C8: private_use reports the first check that fails, in the order ASCII, length,
\* intermediate byte, private-use range
PrivateUseFirstError ==
    pc = "render" =>
        LET value == arg.value
            is7bit == \A i \in 1..Len(value) : value[i] < 128
        IN /\ ~is7bit => outcome = "InvalidAsciiError"
           /\ (is7bit /\ Len(value) > 2) => outcome = "InvalidFunctionValueError"
           /\ (is7bit /\ Len(value) = 2 /\ value[1] # 32)
                 => outcome = "InvalidIntermediateByteError"
           /\ (/\ is7bit
               /\ Len(value) = 1 \/ (Len(value) = 2 /\ value[1] = 32)
               /\ ~(value[Len(value)] \in 112..127))
                 => outcome = "InvalidPrivateUseError"

\* private_use was called on "@@": the first byte is no intermediate byte and the last
\* one is outside the private-use range
PrivateUseFirstErrorWitness ==
    /\ pc = "render"
    /\ arg.value = ascii2(4, 0, 4, 0)
    /\ outcome = "InvalidIntermediateByteError"

\* C9: an ASCII identifier that is not 1 or 2 bytes long, the empty one included, gives
\* InvalidFunctionValueError and no value
PrivateUseLengthError ==
    (/\ pc = "render"
     /\ \A i \in 1..Len(arg.value) : arg.value[i] < 128
     /\ ~(Len(arg.value) \in { 1, 2 }))
        => (outcome = "InvalidFunctionValueError" /\ fn = NoFunction)

\* C11: a C0 value renders as its one identifier byte, a C1 or independent control
\* function as two bytes, ESC and the identifier byte; the rendering is defined for
\* every value and does not look at the parameter list
ConstantRendering ==
    (pc = "decode" /\ fn.function_type # "ControlSequence") =>
        /\ fn.function_type = "C0" =>
              (Len(stream.value) = 1 /\ stream.value = fn.value)
        /\ fn.function_type \in { "C1", "IndependentControlFunction" } =>
              (Len(stream.value) = 2 /\ stream.value = << 27 >> \o fn.value)
        /\ Display([fn EXCEPT !.parameters = << to_string(5) >>]) = stream.value

\* NEL and RIS rendered: ESC "E" and ESC "c"
ConstantRenderingWitness ==
    /\ pc = "decode"
    /\ fn \in { NEL, RIS }
    /\ Len(stream.value) = 2
    /\ stream.value[1] = 27

\* the first n elements of a sequence
Prefix(seq, n) == SubSeq(seq, 1, n)

\* C12: texts A and B without control characters around a catalog function f decode to
\* String(A), ControlFunction(f), String(B), in that order
InterleavedDecoding ==
    LET expected == << String(arg.a), ControlFunction(arg.f), String(arg.b) >>
    IN /\ Len(tokens) <= 3
       /\ tokens = Prefix(expected, Len(tokens))
       /\ returned = "None" => tokens = expected

\* "[" + NEL + a two-byte character, decoded to the end
InterleavedDecodingWitness ==
    /\ returned = "None"
    /\ arg.a = CSI.value
    /\ arg.f = NEL
    /\ arg.b = << 195, 164 >>
    /\ Len(tokens) = 3

\* C13: when the last character of the input is ESC the last token is
\* ControlFunction(ESC); what stands before it is returned first, pending text as a
\* String token, and an input of ESC alone gives that one token
TrailingEscape ==
    LET value == stream.value
        n == Len(value)
        before == Prefix(value, n - 1)
    IN (returned = "None" /\ n > 0 /\ value[n] = 27) =>
          /\ Len(tokens) >= 1
          /\ tokens[Len(tokens)] = ControlFunction(ESC)
          /\ Content(Prefix(tokens, Len(tokens) - 1)) = before
          /\ before = <<>> => tokens = << ControlFunction(ESC) >>
          /\ (before # <<>> /\ NoControlByte(before))
                => tokens = << String(before), ControlFunction(ESC) >>

\* "1", a two-byte character and ESC, decoded to the end
TrailingEscapeWitness ==
    /\ returned = "None"
    /\ stream.value = ascii(3, 1) \o << 195, 164 >> \o ESC.value
    /\ tokens = << String(ascii(3, 1) \o << 195, 164 >>), ControlFunction(ESC) >>

\* the entry is an unsigned integer in decimal digits, or empty
DigitsOrEmpty(entry) == \A i \in 1..Len(entry) : entry[i] \in 48..57

\* the number of bytes of s equal to b
RECURSIVE CountByte(_, _)
CountByte(s, b) ==
    IF Len(s) = 0 THEN 0
    ELSE (IF s[1] = b THEN 1 ELSE 0) + CountByte(Tail(s), b)

\* C14: a control sequence with a non-empty parameter list of digit strings and empty
\* strings renders the entries with one ";" between consecutive entries, empty entries
\* kept, and decoding the rendered string gives back the same list in the same order;
\* ["5", ""] renders its fields as "5;" and decodes to ["5", ""]
ParameterRoundTrip ==
    (/\ pc = "decode"
     /\ outcome = "Ok"
     /\ Len(fn.parameters) > 0
     /\ \A i \in 1..Len(fn.parameters) : DigitsOrEmpty(fn.parameters[i]))
        => LET rendered == Prefix(stream.value, Len(Display(fn)))
               fields == SubSeq(rendered, 3, Len(rendered) - Len(fn.value))
           IN /\ CountByte(fields, 59) = Len(fn.parameters) - 1
              /\ Len(fields) = EntryBytes(fn.parameters, Len(fn.parameters))
                                 + Len(fn.parameters) - 1
              /\ fn.parameters = << to_string(5), <<>> >> => fields = << 53, 59 >>
              /\ returned = "None" => Len(tokens) >= 1
              /\ Len(tokens) >= 1 =>
                    /\ IsSequenceToken(tokens[1])
                    /\ tokens[1].cf.parameters = fn.parameters

\* private_use(" p", ["5", ""]) rendered and decoded
ParameterRoundTripWitness ==
    /\ pc = "decode"
    /\ returned = "None"
    /\ arg.value = ascii2(2, 0, 7, 0)
    /\ fn.parameters = << to_string(5), <<>> >>
    /\ arg.follow = <<>>
    /\ Len(tokens) = 1
    /\ tokens[1].cf.parameters = << to_string(5), <<>> >>

\* C20: a value private_use returns as Ok with a non-empty list of digit strings renders
\* to a string that decodes to that value alone; control sequences that follow one
\* another without text decode to ControlFunction tokens that follow one another, with
\* no String token between them
PrivateRoundTrip ==
    (/\ pc = "decode"
     /\ returned = "None"
     /\ outcome = "Ok"
     /\ Len(fn.parameters) > 0
     /\ \A i \in 1..Len(fn.parameters) :
           fn.parameters[i] # <<>> /\ DigitsOrEmpty(fn.parameters[i]))
        => tokens = << ControlFunction(fn) >>
                      \o [i \in 1..Len(arg.follow) |-> ControlFunction(arg.follow[i])]

\* private_use("p", ["5", "13"]), DA(62) and CUP(23, 6) rendered one after the other and
\* decoded to three ControlFunction tokens
PrivateRoundTripWitness ==
    /\ pc = "decode"
    /\ returned = "None"
    /\ arg.value = ascii(7, 0)
    /\ fn.parameters = << to_string(5), to_string(13) >>
    /\ Len(arg.follow) = 2
    /\ arg.follow[1] # arg.follow[2]
    /\ Len(tokens) = 3
    /\ \A i \in 1..3 : IsSequenceToken(tokens[i])

\* C15 as stated: every parameter entry of a control sequence the decoder returns is an
\* unsigned integer in decimal digits, or empty
DecodedEntriesAreNumbers ==
    \A i \in 1..Len(tokens) :
        IsSequenceToken(tokens[i]) =>
            \A k \in 1..Len(tokens[i].cf.parameters) :
                DigitsOrEmpty(tokens[i].cf.parameters[k])

\* the entry is made of parameter bytes 03/00 - 03/15 other than the separator
ParameterBytesOnly(entry) ==
    \A i \in 1..Len(entry) : entry[i] \in 48..63 /\ entry[i] # 59

\* C15 amended: every parameter entry of a control sequence the decoder returns is a
\* string, possibly empty, of parameter bytes 03/00 - 03/15 without the separator; the
\* list has at least one entry and is the text between CSI and the identifier split at
\* the separators
DecodedEntriesAreParameterBytes ==
    \A i \in 1..Len(tokens) :
        IsSequenceToken(tokens[i]) =>
            LET p == tokens[i].cf.parameters
            IN /\ Len(p) >= 1
               /\ \A k \in 1..Len(p) : ParameterBytesOnly(p[k])
               /\ Len(p) = CountByte(arg.body, 59) + 1
               /\ EntryBytes(p, Len(p)) + Len(p) - 1 = Len(arg.body)

\* ESC [ ? 0 ; H decoded to a control sequence with the entries "?0" and ""
DecodedEntriesAreParameterBytesWitness ==
    /\ returned = "None"
    /\ Len(tokens) = 1
    /\ IsSequenceToken(tokens[1])
    /\ tokens[1].cf.parameters = << ascii(3, 15) \o ascii(3, 0), <<>> >>

\* C16: a value private_use returns as Ok is a control sequence with a valid identifier
\* whose parameter entries are unsigned integers in decimal digits or empty; arguments
\* that would give another value are rejected with an error
PrivateUseValueIsValid ==
    pc = "render" =>
        /\ outcome = "Ok" =>
              /\ fn.function_type = "ControlSequence"
              /\ ValidPrivateUse(fn.value)
              /\ \A i \in 1..Len(fn.parameters) : DigitsOrEmpty(fn.parameters[i])
        /\ (\E i \in 1..Len(arg.parameters) : ~DigitsOrEmpty(arg.parameters[i]))
              => outcome # "Ok"

\* the invariants of a value by its kind
KindInvariant(f) ==
    CASE f.function_type = "C0" ->
            /\ f.parameters = <<>>
            /\ Len(f.value) = 1
            /\ f.value[1] \in 0..31
      [] f.function_type \in { "C1", "IndependentControlFunction" } ->
            /\ f.parameters = <<>>
            /\ Len(f.value) = 1
            /\ f.value[1] \in 0..127
      [] f.function_type = "ControlSequence" ->
            \/ Len(f.value) = 1 /\ f.value[1] \in 64..127
            \/ Len(f.value) = 2 /\ f.value[1] = 32 /\ f.value[2] \in 64..127
      [] OTHER -> FALSE

\* C17: every value a standard constructor or the decoder produces keeps the invariants
\* of its kind: no parameters and a one-byte ASCII identifier for C0 (in 00/00 - 01/15),
\* C1 and independent control functions; for a control sequence an identifier of one
\* byte in 04/00 - 07/15, or of 02/00 and such a byte
ValuesKeepKindInvariants ==
    /\ outcome = "Ok" => KindInvariant(fn)
    /\ \A i \in 1..Len(tokens) :
          tokens[i].kind = "ControlFunction" => KindInvariant(tokens[i].cf)

\* the decoder, on an input that is no rendered value, returned a control sequence with
\* an intermediate byte in its identifier after a token of another kind
ValuesKeepKindInvariantsWitness ==
    /\ arg.call = "none"
    /\ returned = "None"
    /\ Len(tokens) = 2
    /\ tokens[1].kind = "ControlFunction"
    /\ ~IsSequenceToken(tokens[1])
    /\ IsSequenceToken(tokens[2])
    /\ Len(tokens[2].cf.value) = 2

\* C18: for every control function f and every ASCII string s, f == s holds exactly when
\* the rendering of f is s, and s == f, for a &str and for a String, gives the same
\* answer
EqAgreesWithDisplay ==
    (pc \in { "eq", "eq_str", "eq_string" } /\ is_ascii(arg.other)) =>
        outcome = (IF Display(fn) = arg.other THEN "true" ELSE "false")

\* a String compared with NEL: equal, as the string is ESC "E"
EqAgreesWithDisplayWitness ==
    /\ pc = "eq_string"
    /\ fn = NEL
    /\ arg.other = << 27, 69 >>
    /\ outcome = "true"

\* C19: no String token holds a valid control code: every rendered control function
\* starts with a C0 byte (a C0 code is that byte, all others start with ESC), so a String
\* token has no byte of 00/00 - 01/15
StringsHoldNoControlCode ==
    \A i \in 1..Len(tokens) :
        tokens[i].kind = "String" => NoControlByte(tokens[i].str)

-----------------------------------------------------------------------------
(* Properties of the standard builders *)

\* the arguments with every None replaced by the default of its parameter
Explicit(builder, args) ==
    [i \in 1..Len(args) |->
        IF args[i] # <<>> THEN args[i]
        ELSE IF builder.variadic THEN << builder.default >>
        ELSE << builder.default[i] >>]

\* the arguments with every optional argument that is its default replaced by None
Omitted(builder, args) ==
    [i \in 1..Len(args) |->
        IF ~builder.optional[i] THEN args[i]
        ELSE IF builder.variadic
        THEN (IF args[i] = << builder.default >> THEN <<>> ELSE args[i])
        ELSE (IF args[i] = << builder.default[i] >> THEN <<>> ELSE args[i])]

\* C21: a builder called with None for an argument gives the value it gives for the
\* default of that argument, the default written in decimal digits and never as an empty
\* field; CUP(None, Some(10)) has the parameters "1" and "10", and the rendering of a
\* builder called with its defaults decodes to the value of the builder called with None
OmittedIsDefault ==
    (pc # "build" /\ arg.call = "sequence") =>
        /\ fn = sequence(arg.builder, Explicit(arg.builder, arg.args))
        /\ \A i \in 1..Len(arg.args) :
              (arg.args[i] = <<>> /\ ~arg.builder.variadic)
                 => (fn.parameters[i] = to_string(arg.builder.default[i])
                     /\ fn.parameters[i] # <<>>)
        /\ (arg.args[1] = <<>> /\ arg.builder.variadic)
              => fn.parameters = << to_string(arg.builder.default[1]) >>
        /\ sequence(BuilderNamed("CUP"), << <<>>, << 10 >> >>).parameters
              = << << 49 >>, << 49, 48 >> >>
        /\ (pc = "decode" /\ returned = "None" /\ fn.parameters # <<>>)
              => tokens = << ControlFunction(sequence(arg.builder,
                                                      Omitted(arg.builder, arg.args))) >>

\* SPQR(Some(PrintQuality::HighQualityLowSpeed)) rendered and decoded to SPQR(None)
OmittedIsDefaultWitness ==
    /\ pc = "decode"
    /\ returned = "None"
    /\ arg.call = "sequence"
    /\ arg.builder.name = "SPQR"
    /\ arg.args = << << 0 >> >>
    /\ tokens = << ControlFunction(sequence(arg.builder, << <<>> >>)) >>

OpeningByte(name) ==
    CASE name = "application_program_command" -> 95
      [] name = "device_control_string" -> 80
      [] name = "operating_system_command" -> 93
      [] name = "privacy_message" -> 94
      [] name = "control_string" -> 88

\* C23: a control string builder returns its opening delimiter as rendered, the payload
\* unchanged, and ST as rendered; with a payload without control characters the string
\* decodes to the opening delimiter, the payload as one String token (none when the
\* payload is empty) and ST
ControlStringLayout ==
    (pc = "decode" /\ arg.call = "control_string") =>
        LET opening == << 27, OpeningByte(arg.name) >>
            text == IF arg.payload = <<>> THEN <<>> ELSE << String(arg.payload) >>
        IN /\ stream.value = opening \o arg.payload \o << 27, 92 >>
           /\ (returned = "None" /\ NoControlByte(arg.payload))
                 => tokens = << ControlFunction(new_c1(<< OpeningByte(arg.name) >>)) >>
                               \o text \o << ControlFunction(new_c1(<< 92 >>)) >>

\* operating_system_command with a payload of "[" and a two-byte character, decoded to
\* OSC, the payload and ST
ControlStringLayoutWitness ==
    /\ pc = "decode"
    /\ returned = "None"
    /\ arg.name = "operating_system_command"
    /\ arg.payload = << 91, 195, 164 >>
    /\ tokens = << ControlFunction(OSC), String(arg.payload), ControlFunction(ST) >>

-----------------------------------------------------------------------------
(* Properties of the escape branch of the decoder *)

Recognized(tail, n, k) ==
    /\ n - k >= 1
    /\ tail[n] \in 64..127
    /\ k = 1 => tail[n - 1] = 32
    /\ \A i \in 1..(n - k - 1) : tail[i] \in 48..63

\* C25: after ESC [ a control sequence is returned exactly when what follows is
\* parameter bytes, at most one intermediate byte 02/00 and one final byte of
\* 04/00 - 07/15; its identifier is then the final byte (after the intermediate byte if
\* there is one), its parameters are the parameter bytes split at ";", and the position
\* is just behind the final byte; in every other case no control sequence is returned
ScanRecognition ==
    (arg.call = "scan" /\ calls >= 1) =>
        LET tail == arg.tail
            ends == { e \in (1..Len(tail)) \X { 0, 1 } : Recognized(tail, e[1], e[2]) }
        IN /\ returned # "panic"
           /\ \A e \in ends :
                 /\ tokens[1] = ControlFunction(new_sequence(
                                   SubSeq(tail, e[1] - e[2], e[1]),
                                   split(SubSeq(tail, 1, e[1] - e[2] - 1), << 59 >>)))
                 /\ Len(tokens) = 1 => stream.position = 2 + e[1]
           /\ ends = {} => \A i \in 1..Len(tokens) : ~IsSequenceToken(tokens[i])

\* ESC [ ; and the final bytes 02/00 04/08: the sequence with identifier " H" and two
\* empty parameters has been returned and the position is at the end of the input
ScanRecognitionWitness ==
    /\ arg.call = "scan"
    /\ arg.tail = << 59, 32, 72 >>
    /\ tokens = << ControlFunction(new_sequence(<< 32, 72 >>, << <<>>, <<>> >>)) >>
    /\ stream.position = 5
    /\ returned = "Some"

\* ESC and the character c are a code of the C1 or of the independent catalog
Catalogued(c) ==
    \/ \E i \in DOMAIN C1_CODES : C1_CODES[i].value = c
    \/ \E i \in DOMAIN INDEPDENDENT_CODES : INDEPDENDENT_CODES[i].value = c

\* C26: an ESC before an ASCII character with which it forms no C1 code, no independent
\* control function and no introducer is returned alone, the position left on that
\* character, and the rest decodes as it would without the ESC: ESC BEL gives ESC and
\* BEL, ESC ESC E gives ESC and NEL, ESC @ gives ESC and a String that starts at "@"
EscapeAlone ==
    arg.call = "escape" =>
        LET alone == ~Catalogued(arg.follow) /\ arg.follow # << 91 >>
        IN /\ (alone /\ calls = 1)
                 => (tokens = << ControlFunction(ESC) >> /\ stream.position = 1)
           /\ (alone /\ returned = "None")
                 => tokens = << ControlFunction(ESC) >> \o collect(from(arg.follow \o arg.rest))
           /\ (returned = "None" /\ arg.follow = << 7 >> /\ arg.rest = <<>>)
                 => tokens = << ControlFunction(ESC), ControlFunction(BEL) >>
           /\ (returned = "None" /\ arg.follow = << 27 >> /\ arg.rest = << 69 >>)
                 => tokens = << ControlFunction(ESC), ControlFunction(NEL) >>
           /\ (returned = "None" /\ arg.follow = << 64 >>)
                 => /\ Len(tokens) >= 2
                    /\ tokens[1] = ControlFunction(ESC)
                    /\ tokens[2].kind = "String"
                    /\ Prefix(tokens[2].str, 1) = << 64 >>

\* ESC ESC E, decoded to the end as ESC and NEL
EscapeAloneWitness ==
    /\ arg.call = "escape"
    /\ arg.follow = ESC.value
    /\ arg.rest = << 69 >>
    /\ returned = "None"
    /\ tokens = << ControlFunction(ESC), ControlFunction(NEL) >>

\* the number of input bytes the first k tokens stand for
Offset(k) == Len(Content(Prefix(tokens, k)))

\* C27: an ESC before a character that is not ASCII is returned as ControlFunction(ESC),
\* whatever text was pending before it; the position is then on that character, and the
\* next token is a String that starts with the whole character
EscapeBeforeNonAscii ==
    arg.call = "mixed" =>
        LET value == stream.value
            before(p) == p + 2 <= Len(value) /\ value[p + 1] >= 128
        IN /\ returned = "None" =>
                 \A p \in 1..Len(value) :
                     (value[p] = 27 /\ before(p)) =>
                         \E k \in 1..Len(tokens) :
                             tokens[k] = ControlFunction(ESC) /\ Offset(k) = p
           /\ \A k \in 1..Len(tokens) :
                 (tokens[k] = ControlFunction(ESC) /\ before(Offset(k))) =>
                     /\ (k = Len(tokens) /\ returned = "Some")
                           => stream.position = Offset(k)
                     /\ k < Len(tokens) =>
                           /\ tokens[k + 1].kind = "String"
                           /\ Prefix(tokens[k + 1].str, 2)
                                 = SubSeq(value, Offset(k) + 1, Offset(k) + 2)

\* "1", ESC, a two-byte character and "H": the text, the ESC, and the character with
\* the "H" as one String
EscapeBeforeNonAsciiWitness ==
    /\ arg.call = "mixed"
    /\ returned = "None"
    /\ tokens = << String(<< 49 >>), ControlFunction(ESC), String(<< 195, 164, 72 >>) >>

\* the number of tokens of list equal to token
RECURSIVE CountToken(_, _)
CountToken(list, token) ==
    IF Len(list) = 0 THEN 0
    ELSE (IF list[1] = token THEN 1 ELSE 0) + CountToken(Tail(list), token)

\* C28: every occurrence of a C0 byte other than ESC is returned as a ControlFunction
\* token of its own: once the input is decoded there are as many tokens of that code as
\* the input has such bytes, and the byte is in no String and in no other function
EveryC0IsAToken ==
    arg.call = "c0" =>
        LET code == ControlFunction(new_c0(<< arg.byte >>))
        IN /\ returned # "panic"
           /\ returned = "None" => CountToken(tokens, code) = CountByte(stream.value, arg.byte)
           /\ \A i \in 1..Len(tokens) :
                 tokens[i] # code => CountByte(Content(<< tokens[i] >>), arg.byte) = 0

\* ESC [ and the byte 00/00: the scan of the control sequence is cut by the byte, which
\* is returned as NUL after the text
EveryC0IsATokenWitness ==
    /\ arg.call = "c0"
    /\ arg.byte = 0
    /\ stream.value = << 27, 91, 0 >>
    /\ returned = "None"
    /\ tokens = << String(<< 27, 91 >>), ControlFunction(c0(0, 0)) >>

\* C29: every String token is non-empty and is followed by a ControlFunction token or by
\* the end of the stream, so no two String tokens are adjacent; what is pending at the
\* end of the input is returned as one last String, and the tokens then make up the input
TextTokensSeparate ==
    arg.call = "mixed" =>
        /\ \A i \in 1..Len(tokens) :
              tokens[i].kind = "String" =>
                  /\ Len(tokens[i].str) > 0
                  /\ i < Len(tokens) => tokens[i + 1].kind = "ControlFunction"
        /\ returned = "None" => Content(tokens) = stream.value

\* "H", BEL, "1" and a two-byte character: a String, BEL, and the rest as the one last
\* String
TextTokensSeparateWitness ==
    /\ arg.call = "mixed"
    /\ returned = "None"
    /\ tokens = << String(<< 72 >>), ControlFunction(BEL), String(<< 49, 195, 164 >>) >>

\* C30: the tokens returned so far are the input up to the position, in order; when a
\* call has returned a String and input is left, the position is on the first byte of a
\* control function, no byte of which was consumed, and the next call returns that
\* function as it stands there
TextBeforeFunction ==
    (arg.call = "mixed" /\ returned # "panic") =>
        /\ Content(tokens) = Prefix(stream.value, stream.position)
        /\ (/\ returned = "Some"
            /\ tokens[Len(tokens)].kind = "String"
            /\ stream.position < stream.max_position)
              => LET following == next(stream)
                 IN /\ ~following.panic
                    /\ following.some
                    /\ following.token.kind = "ControlFunction"
                    /\ Display(following.token.cf)
                          = SubSeq(stream.value, stream.position + 1, following.position)

\* a two-byte character and ESC [ H: the String has been returned, the position is on
\* the ESC, two bytes in, and the control sequence is next
TextBeforeFunctionWitness ==
    /\ arg.call = "mixed"
    /\ stream.value = << 195, 164, 27, 91, 72 >>
    /\ returned = "Some"
    /\ tokens = << String(<< 195, 164 >>) >>
    /\ stream.position = 2
    /\ IsSequenceToken(next(stream).token)

-----------------------------------------------------------------------------
(* Properties of decoded control sequences and of failed scans *)

\* C31: a control sequence decoded from ESC [ and a final byte alone, or the intermediate
\* byte and a final byte, has the one parameter "", not an empty list; every control
\* sequence the decoder returns has at least one parameter, and no parameter holds a ";"
DecodedParametersNeverEmpty ==
    arg.call = "scan" =>
        /\ \A i \in 1..Len(tokens) :
              IsSequenceToken(tokens[i]) =>
                  /\ Len(tokens[i].cf.parameters) >= 1
                  /\ \A j \in 1..Len(tokens[i].cf.parameters) :
                        CountByte(tokens[i].cf.parameters[j], 59) = 0
        /\ (/\ calls >= 1
            /\ Len(arg.tail) >= 1
            /\ \/ arg.tail[1] \in 64..127
               \/ Len(arg.tail) >= 2 /\ arg.tail[1] = 32 /\ arg.tail[2] \in 64..127)
              => (IsSequenceToken(tokens[1]) /\ tokens[1].cf.parameters = << <<>> >>)

\* ESC [ and the final bytes 02/00 04/08 with nothing between: the sequence " H" with the
\* one parameter ""
DecodedParametersNeverEmptyWitness ==
    /\ arg.call = "scan"
    /\ arg.tail = << 32, 72 >>
    /\ returned = "None"
    /\ tokens = << ControlFunction(new_sequence(<< 32, 72 >>, << <<>> >>)) >>

\* the control functions of a token list, in order
RECURSIVE Functions(_)
Functions(list) ==
    IF Len(list) = 0 THEN <<>>
    ELSE (IF list[1].kind = "ControlFunction" THEN << list[1].cf >> ELSE <<>>)
         \o Functions(Tail(list))

\* C32: when the scan after ESC [ is cut, nothing but the ESC can be lost as a function:
\* the control functions returned are those of the input from "[" on, decoded on its own
\* (with the ESC before them if it was returned); ESC [ ESC [ 1 H ends with the control
\* sequence H with the parameter "1", ESC [ 1 BEL with BEL
FailedScanSkipsNothing ==
    (arg.call = "failed" /\ returned = "None") =>
        LET rest == arg.rest
            cut == \A e \in (1..Len(rest)) \X { 0, 1 } : ~Recognized(rest, e[1], e[2])
            alone == Functions(collect(from(<< 91 >> \o rest)))
        IN /\ cut => Functions(tokens) \in { alone, << ESC >> \o alone }
           /\ rest = << 27, 91, 49, 72 >>
                 => tokens[Len(tokens)] = ControlFunction(new_sequence(<< 72 >>, << << 49 >> >>))
           /\ rest = << 49, 7 >> => tokens[Len(tokens)] = ControlFunction(BEL)

\* ESC [ ESC [ 1 H: the first scan is cut by the second ESC, and the control sequence
\* after it is returned
FailedScanSkipsNothingWitness ==
    /\ arg.call = "failed"
    /\ arg.rest = << 27, 91, 49, 72 >>
    /\ returned = "None"
    /\ Len(tokens) = 2
    /\ tokens[2] = ControlFunction(new_sequence(<< 72 >>, << << 49 >> >>))

\* C33: the content of every String token returned, decoded on its own, gives that one
\* String token and nothing else
TextDecodesToItself ==
    arg.call = "failed" =>
        \A i \in 1..Len(tokens) :
            tokens[i].kind = "String" => collect(from(tokens[i].str)) = << tokens[i] >>

\* ESC [ 1, a two-byte character and BEL: the String before the BEL holds the ESC of the
\* scan that was cut, and decodes to itself
TextDecodesToItselfWitness ==
    /\ arg.call = "failed"
    /\ returned = "None"
    /\ tokens = << String(<< 27, 91, 49, 195, 164 >>), ControlFunction(BEL) >>
    /\ collect(from(tokens[1].str)) = << tokens[1] >>

-----------------------------------------------------------------------------
(* Properties of the comparison with strings *)

\* C34: a comparison of a control function with a string never fails; a C1 code or an
\* independent control function compared with a string of two bytes that is one
\* character gives false
EqNeverFails ==
    (arg.call = "eq" /\ pc # "build") =>
        /\ outcome # "panic"
        /\ (/\ fn.function_type \in { "C1", "IndependentControlFunction" }
            /\ Len(arg.other) = 2
            /\ ~is_char_boundary(arg.other, 1))
              => outcome = "false"

-----------------------------------------------------------------------------
(* Properties of the explain module *)

\* C35: the classification of the explain module is total on what the decoder returns:
\* no control function decoded from any input, control sequences with a final byte that
\* is not allocated included, brings short_name, long_name, short_description or
\* long_description to an unreachable!() branch
ExplainIsTotal ==
    (arg.call = "explain" /\ pc # "decode") => outcome # "unreachable"

====
